---------------------------- MODULE Spec2Model ----------------------------
(***************************************************************************)
(* Model of the video-trimmer export / download core:                      *)
(*   - the Command Builder (buildDrawTextFilter, buildFfmpegArgs,          *)
(*     escapeFfmpeg) of services/ffmpeg.ts,                                *)
(*   - the Export Runner (exportWithProgress) of services/ffmpeg.ts,       *)
(*   - the Download Runner (startDownload) of services/downloader.ts,      *)
(*   - the export:start and download:start handlers of main.ts, the        *)
(*     progress subscriptions of preload.ts and the Export and Download    *)
(*     panels of renderer/ui/App.tsx.                                      *)
(*                                                                         *)
(* Strings that the code only passes along or concatenates are TLA+        *)
(* strings (built with \o).  Strings that the code scans with a regular    *)
(* expression are sequences of one-character strings, and the regular      *)
(* expressions are evaluated character by character.                       *)
(*                                                                         *)
(* Seconds, opacities and font sizes are JavaScript numbers; the model     *)
(* keeps them as fixed-point integers counted in 1/Scale units.  A ratio   *)
(* is an exact fraction <<numerator, denominator>> in lowest terms.        *)
(***************************************************************************)
EXTENDS Integers, Sequences, FiniteSets, TLC

VARIABLES
    req,        \* SpecArgs: the ExportOptions handed to buildFfmpegArgs
    args,       \* SpecArgs: the argument vector it returned (<<>> before the call)
    ex,         \* export runs: id of a started run -> state of that exportWithProgress call
    dl,         \* the download run: state of one startDownload call
    files,      \* SpecApp: the temporary files of the main process, path -> content
    main,       \* SpecApp: the invocations of the IPC handlers, id -> handler state
    chan,       \* SpecApp: the messages on their way from the main process to the renderer
    ui,         \* SpecApp: the renderer: panels, their running handlers, the listeners
    proj,       \* SpecTrim: the project store of the renderer and its timeline
    pb,         \* SpecMeta, SpecProbe: a probe: the ffprobe call and the metadata extraction
    loc         \* SpecPaths: a call of a binary locator: its environment and its result

vars == <<req, args, ex, dl, files, main, chan, ui, proj, pb, loc>>
appVars == <<files, main, chan, ui>>
runVars == <<req, args, ex, dl>>
auxVars == <<proj, pb, loc>>

(***************************************************************************)
(* Numbers and their string forms                                          *)
(***************************************************************************)

\* Fixed-point resolution: hundredths (ffmpeg prints time=HH:MM:SS.cc).
Scale == 10 * 10

Max(a, b) == IF a >= b THEN a ELSE b
Min(a, b) == IF a <= b THEN a ELSE b

Digits == <<"0", "1", "2", "3", "4", "5", "6", "7", "8", "9">>
DigitSet == {Digits[i] : i \in 1..10}
IsDigit(c) == c \in DigitSet
DigitVal(c) == CHOOSE d \in 0..9 : Digits[d + 1] = c

RECURSIVE NatStr(_)
\* String(n) / `${n}` for a non-negative integer.
NatStr(n) == IF n < 10 THEN Digits[n + 1]
             ELSE NatStr(n \div 10) \o Digits[(n % 10) + 1]

\* String(n) / `${n}` for an integer.
IntStr(n) == IF n < 0 THEN "-" \o NatStr(0 - n) ELSE NatStr(n)

RECURSIVE NatChars(_)
\* `${n}` for a non-negative integer, as a character sequence.
NatChars(n) == IF n < 10 THEN <<Digits[n + 1]>>
               ELSE Append(NatChars(n \div 10), Digits[(n % 10) + 1])

\* `${n}` for an integer, as a character sequence.
IntChars(n) == IF n < 0 THEN <<"-">> \o NatChars(0 - n) ELSE NatChars(n)

\* Number.prototype.toString of the fixed-point number v / Scale:
\* shortest decimal form, no trailing zeros, no "." for an integer.
NumStr(v) ==
    LET a == IF v < 0 THEN 0 - v ELSE v
        f == a % Scale
        frac == IF f = 0 THEN ""
                ELSE IF f % 10 = 0 THEN "." \o Digits[(f \div 10) + 1]
                ELSE "." \o Digits[(f \div 10) + 1] \o Digits[(f % 10) + 1]
    IN (IF v < 0 THEN "-" ELSE "") \o NatStr(a \div Scale) \o frac

\* x | 0 (ToInt32) of the fixed-point number v / Scale: truncation toward zero.
\* The result is a plain integer.
ToInt32(v) == IF v < 0 THEN 0 - ((0 - v) \div Scale) ELSE v \div Scale

RECURSIVE Gcd(_, _)
Gcd(a, b) == IF b = 0 THEN a ELSE Gcd(b, a % b)

\* The number n / d (d > 0, n >= 0) as a fraction in lowest terms.
Ratio(n, d) == LET g == Gcd(n, d) IN <<n \div g, d \div g>>
RatioLeq(p, q) == p[1] * q[2] <= q[1] * p[2]
RatioMax(p, q) == IF RatioLeq(p, q) THEN q ELSE p
RatioMin(p, q) == IF RatioLeq(p, q) THEN p ELSE q
Zero == Ratio(0, 1)
One == Ratio(1, 1)

(***************************************************************************)
(* Optional values and character sequences                                 *)
(***************************************************************************)

\* An optional value (x?: T) is <<>> (undefined) or <<x>>.
Undefined == <<>>
Some(x) == <<x>>

\* JavaScript truthiness of an optional string: undefined and "" are falsy.
TruthyStr(o) == o # Undefined /\ o[1] # ""
\* The same for a string kept as a character sequence.
TruthyChars(o) == o # Undefined /\ o[1] # <<>>

RECURSIVE Join(_)
\* The string spelled by a sequence of one-character strings.
Join(s) == IF s = <<>> THEN "" ELSE Head(s) \o Join(Tail(s))

RECURSIVE ReplaceAll(_, _, _)
\* text.replace(/c/g, r): every occurrence of character c replaced by r.
ReplaceAll(s, c, r) ==
    IF s = <<>> THEN <<>>
    ELSE (IF Head(s) = c THEN r ELSE <<Head(s)>>) \o ReplaceAll(Tail(s), c, r)

(***************************************************************************)
(* Command Builder                                                         *)
(***************************************************************************)

\* Faulty variant of escapeFfmpeg: backslashes are escaped last.
escapeFfmpeg_BackslashLast(text) ==
    ReplaceAll(ReplaceAll(ReplaceAll(text, ":", <<"\\", ":">>),
                          "'", <<"\\", "'">>),
               "\\", <<"\\", "\\">>)

\* escapeFfmpeg: backslashes first, then colons, then single quotes.
escapeFfmpeg(text) ==
    ReplaceAll(ReplaceAll(ReplaceAll(text, "\\", <<"\\", "\\">>),
                          ":", <<"\\", ":">>),
               "'", <<"\\", "'">>)

LeftAnchor(anchor) == anchor = "topLeft" \/ anchor = "bottomLeft"
TopAnchor(anchor) == anchor = "topLeft" \/ anchor = "topRight"

\* wm.color.replace('#', ''): the first '#' removed.
StripHash(color) ==
    IF \E i \in 1..Len(color) : color[i] = "#"
    THEN LET i == CHOOSE k \in 1..Len(color) :
                    color[k] = "#" /\ \A j \in 1..(k - 1) : color[j] # "#"
         IN SubSeq(color, 1, i - 1) \o SubSeq(color, i + 1, Len(color))
    ELSE color

\* Faulty variant of DrawTextX: right anchors leave out the text width.
DrawTextX_NoTextWidth(wm) ==
    IF LeftAnchor(wm.anchor) THEN IntChars(wm.offsetX)
    ELSE <<"w", "-">> \o IntChars(wm.offsetX)

\* The x and y expressions of the drawtext filter.
DrawTextX(wm) ==
    IF LeftAnchor(wm.anchor) THEN IntChars(wm.offsetX)
    ELSE <<"w", "-", "t", "w", "-">> \o IntChars(wm.offsetX)
DrawTextY(wm) ==
    IF TopAnchor(wm.anchor) THEN IntChars(wm.offsetY)
    ELSE <<"h", "-", "t", "h", "-">> \o IntChars(wm.offsetY)

\* The x and y expressions of the overlay filter.
OverlayX(wm) ==
    IF LeftAnchor(wm.anchor) THEN IntChars(wm.offsetX)
    ELSE <<"m", "a", "i", "n", "_", "w", "-", "o", "v", "e", "r", "l", "a", "y", "_", "w", "-">>
         \o IntChars(wm.offsetX)
OverlayY(wm) ==
    IF TopAnchor(wm.anchor) THEN IntChars(wm.offsetY)
    ELSE <<"m", "a", "i", "n", "_", "h", "-", "o", "v", "e", "r", "l", "a", "y", "_", "h", "-">>
         \o IntChars(wm.offsetY)

\* The part of the drawtext filter that follows the quoted text: font file,
\* size, colour, styling and position.
DrawTextStyle(project, fontFile) ==
    LET wm == project.watermark
        rgb == Join(StripHash(wm.color))
        alpha == NumStr(wm.opacity)
        fs == Max(1, ToInt32(wm.fontSizePx))
        fontParam == IF TruthyChars(fontFile)
                     THEN ":fontfile='" \o Join(escapeFfmpeg(fontFile[1])) \o "'"
                     ELSE ""
        style == ":shadowcolor=000000@0.6:shadowx=2:shadowy=2:box=1:boxcolor=000000@0.35:boxborderw=10"
    IN fontParam \o ":fontsize=" \o IntStr(fs) \o ":fontcolor=" \o rgb \o "@" \o alpha
       \o style \o ":x=" \o Join(DrawTextX(wm)) \o ":y=" \o Join(DrawTextY(wm))

buildDrawTextFilter(project, fontFile) ==
    "drawtext=text='" \o Join(escapeFfmpeg(project.watermark.text)) \o "'"
    \o DrawTextStyle(project, fontFile)

\* The overlay graph of the raster strategy.
OverlayFilter(project) ==
    LET wm == project.watermark
    IN "[1:v]format=rgba,setsar=1[wm];[0:v][wm]overlay=" \o Join(OverlayX(wm))
       \o ":" \o Join(OverlayY(wm)) \o ":shortest=1[v]"

\* Faulty variant of TargetDur: the duration is not clamped at 0.
TargetDur_NoClamp(opts) == opts.endSec - opts.startSec

\* Math.max(0, endSec - startSec)
TargetDur(opts) == Max(0, opts.endSec - opts.startSec)

\* Faulty variant of InputArgs: the image input is declared before the
\* primary input.
InputArgs_ImageFirst(opts) ==
    (IF TruthyStr(opts.wmImagePath)
     THEN <<"-stream_loop", "-1", "-i", opts.wmImagePath[1]>>
     ELSE <<>>)
    \o <<"-i", opts.input>>

\* args.push('-i', input) and, for a raster request, the looped image input.
InputArgs(opts) ==
    <<"-i", opts.input>>
    \o (IF TruthyStr(opts.wmImagePath)
        THEN <<"-stream_loop", "-1", "-i", opts.wmImagePath[1]>>
        ELSE <<>>)

\* args.push('-ss', startSec.toString(), '-t', dur.toString())
TrimArgs(opts) == <<"-ss", NumStr(opts.startSec), "-t", NumStr(TargetDur(opts))>>

\* Faulty variant of WatermarkArgs: the drawtext filter is always added.
WatermarkArgs_Both(opts) ==
    (IF TruthyStr(opts.wmImagePath)
     THEN <<"-filter_complex", OverlayFilter(opts.project),
            "-map", "[v]", "-map", "0:a?">>
     ELSE <<>>)
    \o <<"-vf", buildDrawTextFilter(opts.project, opts.fontFile)>>

\* The watermark strategy: overlay graph for a raster request, drawtext otherwise.
WatermarkArgs(opts) ==
    IF TruthyStr(opts.wmImagePath)
    THEN <<"-filter_complex", OverlayFilter(opts.project),
           "-map", "[v]", "-map", "0:a?">>
    ELSE <<"-vf", buildDrawTextFilter(opts.project, opts.fontFile)>>

\* Faulty variant of EncoderArgs: the hardware branch keeps the software
\* encoder's rate parameter.
EncoderArgs_CrfForHardware(opts) ==
    IF opts.project.export.useHardwareAccel
    THEN <<"-c:v", "h264_nvenc", "-preset", "p5", "-crf",
           IntStr(opts.project.export.quality.value)>>
    ELSE <<"-c:v", "libx264", "-preset", "medium", "-crf",
           IntStr(opts.project.export.quality.value)>>

\* The video encoder selection.
EncoderArgs(opts) ==
    IF opts.project.export.useHardwareAccel
    THEN <<"-c:v", "h264_nvenc", "-preset", "p5", "-cq",
           IntStr(opts.project.export.quality.value)>>
    ELSE <<"-c:v", "libx264", "-preset", "medium", "-crf",
           IntStr(opts.project.export.quality.value)>>

\* Faulty variant of OutputArgs: -shortest is left out.
OutputArgs_NoShortest(opts) ==
    <<"-pix_fmt", "yuv420p">> \o <<"-movflags", "+faststart">>
    \o <<"-c:a", "aac", "-b:a", "192k", opts.output>>

\* Output normalisation, audio encoder and destination.
OutputArgs(opts) ==
    <<"-pix_fmt", "yuv420p">> \o <<"-movflags", "+faststart">> \o <<"-shortest">>
    \o <<"-c:a", "aac", "-b:a", "192k", opts.output>>

\* Faulty variant of buildFfmpegArgs: the vector carries the number of
\* handler invocations seen so far.
buildFfmpegArgs_Stateful(opts) ==
    <<"-hide_banner", "-y">> \o InputArgs(opts) \o TrimArgs(opts)
    \o WatermarkArgs(opts) \o EncoderArgs(opts)
    \o <<"-metadata", "comment=" \o NatStr(Cardinality(DOMAIN main))>>
    \o OutputArgs(opts)

buildFfmpegArgs(opts) ==
    <<"-hide_banner", "-y">> \o InputArgs(opts) \o TrimArgs(opts)
    \o WatermarkArgs(opts) \o EncoderArgs(opts) \o OutputArgs(opts)

(***************************************************************************)
(* Regular-expression helpers on character sequences                       *)
(***************************************************************************)

\* Whether the literal lit occurs in t at index i.
LitAt(t, i, lit) ==
    /\ i >= 1
    /\ i + Len(lit) - 1 <= Len(t)
    /\ \A k \in 1..Len(lit) : t[i + k - 1] = lit[k]

RECURSIVE DigitRun(_, _)
\* \d*: the length of the longest run of digits of t that starts at index i.
DigitRun(t, i) ==
    IF i <= Len(t) /\ IsDigit(t[i]) THEN 1 + DigitRun(t, i + 1) ELSE 0

RECURSIVE DecVal(_)
\* parseInt of a non-empty digit string.
DecVal(ds) ==
    IF ds = <<>> THEN 0
    ELSE 10 * DecVal(SubSeq(ds, 1, Len(ds) - 1)) + DigitVal(ds[Len(ds)])

\* parseFloat of a string matching \d+\.?\d*, in 1/Scale units.  Digits after
\* the second fractional digit are below the model's resolution.
FloatVal(cs) ==
    LET n == DigitRun(cs, 1)
        fr == IF n + 1 <= Len(cs) THEN SubSeq(cs, n + 2, Len(cs)) ELSE <<>>
        d1 == IF Len(fr) >= 1 THEN DigitVal(fr[1]) ELSE 0
        d2 == IF Len(fr) >= 2 THEN DigitVal(fr[2]) ELSE 0
    IN DecVal(SubSeq(cs, 1, n)) * Scale + d1 * 10 + d2

(***************************************************************************)
(* The elapsed-time pattern of the Export Runner                           *)
(***************************************************************************)

TimeEq == <<"t", "i", "m", "e", "=">>

\* /time=(\d+):(\d+):(\d+\.?\d*)/ anchored at index i: the three groups, or
\* Undefined.  Digits, ':' and '.' are disjoint, so the greedy match is the
\* only one.
TimeMatchAt(t, i) ==
    LET a == i + Len(TimeEq)
        n1 == DigitRun(t, a)
        b == a + n1 + 1
        n2 == DigitRun(t, b)
        c == b + n2 + 1
        n3 == DigitRun(t, c)
        dot == c + n3 <= Len(t) /\ t[c + n3] = "."
        n4 == IF dot THEN DigitRun(t, c + n3 + 1) ELSE 0
        e == c + n3 + (IF dot THEN 1 + n4 ELSE 0)
    IN IF /\ LitAt(t, i, TimeEq)
          /\ n1 >= 1 /\ LitAt(t, a + n1, <<":">>)
          /\ n2 >= 1 /\ LitAt(t, b + n2, <<":">>)
          /\ n3 >= 1
       THEN Some(<<SubSeq(t, a, a + n1 - 1), SubSeq(t, b, b + n2 - 1),
                   SubSeq(t, c, e - 1)>>)
       ELSE Undefined

\* Faulty variant of ExecTimeAt: the rightmost match.
ExecTimeAt_Rightmost(t) ==
    LET hits == {i \in 1..Len(t) : TimeMatchAt(t, i) # Undefined}
    IN IF hits = {} THEN Undefined
       ELSE TimeMatchAt(t, CHOOSE i \in hits : \A j \in hits : i >= j)

\* RegExp.exec: the leftmost match.
ExecTimeAt(t) ==
    LET hits == {i \in 1..Len(t) : TimeMatchAt(t, i) # Undefined}
    IN IF hits = {} THEN Undefined
       ELSE TimeMatchAt(t, CHOOSE i \in hits : \A j \in hits : i <= j)

(***************************************************************************)
(* The transcoder's diagnostic stream                                      *)
(***************************************************************************)

\* Most data events of one run, and most pieces of text in one data event.
MaxChunks == 3
MaxPieces == 2

\* Two digits, as ffmpeg prints hours, minutes and seconds.
Pad2(n) == <<Digits[((n \div 10) % 10) + 1], Digits[(n % 10) + 1]>>

\* Fractions of a second as printed, with their value in 1/Scale units.
NoFrac == [txt |-> <<>>, val |-> 0]
DotFrac == [txt |-> <<".">>, val |-> 0]
HalfFrac == [txt |-> <<".", "5", "0">>, val |-> 50]

\* A timestamp of sec whole seconds and a fraction.
Stamp(sec, frac) == [kind |-> "stamp", sec |-> sec, frac |-> frac]

\* The pieces of text a data event is made of: noise, "time=N/A", a negative
\* timestamp, a timestamp cut off by the end of the chunk, and the timestamps
\* 00:00:00, 00:00:02, 00:00:02.50, 00:00:05. and 01:01:01.50.
StampPieces ==
    {Stamp(0, NoFrac), Stamp(2, NoFrac), Stamp(2, HalfFrac), Stamp(5, DotFrac),
     Stamp(3661, HalfFrac)}
Pieces ==
    {[kind |-> k, sec |-> 0, frac |-> NoFrac] : k \in {"noise", "na", "neg", "cut"}}
    \cup StampPieces

\* The text of a piece.
RenderPiece(p) ==
    CASE p.kind = "noise" -> <<"f", "p", "s", "=", "3", "0", " ">>
      [] p.kind = "na" -> TimeEq \o <<"N", "/", "A", " ">>
      [] p.kind = "neg" -> TimeEq \o <<"-", "0", "0", ":", "0", "0", ":", "0", "1", ".", "0", "0", " ">>
      [] p.kind = "cut" -> TimeEq \o <<"0", "0", ":", "0">>
      [] p.kind = "stamp" ->
            TimeEq \o Pad2(p.sec \div 3600) \o <<":">> \o Pad2((p.sec \div 60) % 60)
            \o <<":">> \o Pad2(p.sec % 60) \o p.frac.txt \o <<" ">>

RECURSIVE RenderChunk(_)
RenderChunk(c) == IF c = <<>> THEN <<>> ELSE RenderPiece(Head(c)) \o RenderChunk(Tail(c))

\* The chunks a data event may carry: up to MaxPieces pieces.
StderrChunks == UNION {[1..n -> Pieces] : n \in 0..MaxPieces}

\* What a chunk says (not what the runner parses): the elapsed time of its
\* first timestamp in 1/Scale units, or Undefined when it has none.
FirstStamp(c) ==
    LET at == {i \in 1..Len(c) : c[i].kind = "stamp"}
    IN IF at = {} THEN Undefined
       ELSE LET i == CHOOSE k \in at : \A j \in at : k <= j
            IN Some(c[i].sec * Scale + c[i].frac.val)

\* A chunk carries, after its first timestamp, one of a later time.
LaterStamp(c) ==
    LET at == {i \in 1..Len(c) : c[i].kind = "stamp"}
    IN \E i, j \in at :
          /\ \A k \in at : i <= k
          /\ i < j
          /\ c[j].sec * Scale + c[j].frac.val > c[i].sec * Scale + c[i].frac.val

\* The text of every chunk and the regular expression's result on it, each
\* computed once.
StderrText == [c \in StderrChunks |-> RenderChunk(c)]
StderrTexts == {StderrText[c] : c \in StderrChunks}
ExecTimeOf == [t \in StderrTexts |-> ExecTimeAt(t)]

(***************************************************************************)
(* Export Runner                                                           *)
(***************************************************************************)

\* /time=(\d+):(\d+):(\d+\.?\d*)/.exec(text)
ExecTime(text) == ExecTimeOf[text]

\* hh * 3600 + mm * 60 + ss, in 1/Scale units.
ElapsedSec(m) ==
    LET hh == DecVal(m[1])
        mm == DecVal(m[2])
        ss == FloatVal(m[3])
    IN hh * 3600 * Scale + mm * 60 * Scale + ss

\* Faulty variants of NextRatio: without the monotonicity clamp, and without
\* the cap at 1.
NextRatio_NoMax(lastRatio, sec, targetDur) == RatioMin(One, Ratio(sec, targetDur))
NextRatio_NoMin(lastRatio, sec, targetDur) == RatioMax(lastRatio, Ratio(sec, targetDur))

\* Math.max(lastRatio, Math.min(1, sec / targetDur))
NextRatio(lastRatio, sec, targetDur) ==
    RatioMax(lastRatio, RatioMin(One, Ratio(sec, targetDur)))

\* A promise: pending, resolved, or rejected with an error.  The error is the
\* spawn error of the 'error' event or the Error built from the exit code.
Pending == [state |-> "pending", error |-> "", code |-> 0]
Resolved == [state |-> "resolved", error |-> "", code |-> 0]
Rejected(error, code) == [state |-> "rejected", error |-> error, code |-> code]

\* Faulty variant of Settle: a later resolve() or reject() replaces the
\* outcome.
Settle_LastWins(p, outcome) == outcome

\* resolve() / reject() settle a promise once; later calls are ignored.
Settle(p, outcome) == IF p.state = "pending" THEN outcome ELSE p

\* Faulty variant of ExportOnData: a chunk without a usable timestamp reports
\* the last ratio again.
ExportOnData_AlwaysReports(run, text) ==
    LET m == ExecTime(text)
        targetDur == TargetDur(run.opts)
    IN IF m # Undefined /\ targetDur > 0
       THEN LET r == NextRatio(run.lastRatio, ElapsedSec(m[1]), targetDur)
            IN [run EXCEPT !.lastRatio = r, !.calls = Append(@, r)]
       ELSE [run EXCEPT !.calls = Append(@, run.lastRatio)]

\* child.stderr.on('data', ...) of exportWithProgress.
ExportOnData(run, text) ==
    LET m == ExecTime(text)
        targetDur == TargetDur(run.opts)
    IN IF m # Undefined /\ targetDur > 0
       THEN LET r == NextRatio(run.lastRatio, ElapsedSec(m[1]), targetDur)
            IN [run EXCEPT !.lastRatio = r, !.calls = Append(@, r)]
       ELSE run

\* child.on('error', reject)
ExportOnError(run, errno) ==
    [run EXCEPT !.promise = Settle(@, Rejected("spawn", errno))]

\* Faulty variant of ExportOnClose: the exit code is not looked at.
ExportOnClose_AlwaysResolves(run, code) ==
    [run EXCEPT !.promise = Settle(@, Resolved)]

\* child.on('close', ...)
ExportOnClose(run, code) ==
    IF code = 0
    THEN [run EXCEPT !.promise = Settle(@, Resolved)]
    ELSE [run EXCEPT !.promise = Settle(@, Rejected("ffmpeg failed with code", code))]

(***************************************************************************)
(* Download Runner                                                         *)
(***************************************************************************)

\* \s
IsSpace(c) == c \in {" ", "\n", "\t", "\r"}

RECURSIVE SpaceRun(_, _)
\* \s*: the length of the longest run of whitespace of t that starts at i.
SpaceRun(t, i) ==
    IF i <= Len(t) /\ IsSpace(t[i]) THEN 1 + SpaceRun(t, i + 1) ELSE 0

RECURSIVE WordRun(_, _)
\* [^\s]*: the length of the longest run of non-whitespace that starts at i.
WordRun(t, i) ==
    IF i <= Len(t) /\ ~IsSpace(t[i]) THEN 1 + WordRun(t, i + 1) ELSE 0

\* The least element of a non-empty set of indices.
Least(S) == CHOOSE i \in S : \A j \in S : i <= j
Greatest(S) == CHOOSE i \in S : \A j \in S : i >= j

RECURSIVE SplitOn(_, _)
\* The pieces of s between the occurrences of the character c.
SplitOn(s, c) ==
    IF \E i \in 1..Len(s) : s[i] = c
    THEN LET i == Least({k \in 1..Len(s) : s[k] = c})
         IN <<SubSeq(s, 1, i - 1)>> \o SplitOn(SubSeq(s, i + 1, Len(s)), c)
    ELSE <<s>>

DownloadTag == <<"[", "d", "o", "w", "n", "l", "o", "a", "d", "]">>

\* /\[download\]\s+(\d{1,3}(?:\.\d+)?)%/ anchored at index i: the group, or
\* Undefined.  After one to three digits the pattern needs '.' or '%', so a
\* run of more than three digits does not match; after ".digits" it needs '%'.
PctMatchAt(t, i) ==
    LET a == i + Len(DownloadTag)
        ns == SpaceRun(t, a)
        b == a + ns
        n1 == DigitRun(t, b)
        dot == LitAt(t, b + n1, <<".">>)
        n2 == IF dot THEN DigitRun(t, b + n1 + 1) ELSE 0
        e == IF dot /\ n2 >= 1 THEN b + n1 + 1 + n2 ELSE b + n1
    IN IF /\ LitAt(t, i, DownloadTag)
          /\ ns >= 1
          /\ n1 >= 1 /\ n1 <= 3
          /\ LitAt(t, e, <<"%">>)
       THEN Some(SubSeq(t, b, e - 1))
       ELSE Undefined

\* RegExp.exec: the leftmost match.
ExecPctAt(t) ==
    LET hits == {i \in 1..Len(t) : PctMatchAt(t, i) # Undefined}
    IN IF hits = {} THEN Undefined ELSE PctMatchAt(t, Least(hits))

\* /at\s+([^\s]+\/s)/ anchored at index i.  [^\s]+ is greedy and gives back
\* characters until "/s" follows: the group ends at the last "/s" of the word
\* that has a character before it.
SpeedMatchAt(t, i) ==
    LET a == i + 2
        ns == SpaceRun(t, a)
        b == a + ns
        nw == WordRun(t, b)
        ends == {k \in (b + 1)..(b + nw - 2) : LitAt(t, k, <<"/", "s">>)}
    IN IF LitAt(t, i, <<"a", "t">>) /\ ns >= 1 /\ ends # {}
       THEN Some(SubSeq(t, b, Greatest(ends) + 1))
       ELSE Undefined

\* /at\s+([^\s]+\/s)/.exec(line)?.[1]
ExecSpeedAt(t) ==
    LET hits == {i \in 1..Len(t) : SpeedMatchAt(t, i) # Undefined}
    IN IF hits = {} THEN Undefined ELSE SpeedMatchAt(t, Least(hits))

\* /ETA\s+([^\s]+)/ anchored at index i.
EtaMatchAt(t, i) ==
    LET a == i + 3
        ns == SpaceRun(t, a)
        b == a + ns
        nw == WordRun(t, b)
    IN IF LitAt(t, i, <<"E", "T", "A">>) /\ ns >= 1 /\ nw >= 1
       THEN Some(SubSeq(t, b, b + nw - 1))
       ELSE Undefined

\* /ETA\s+([^\s]+)/.exec(line)?.[1]
ExecEtaAt(t) ==
    LET hits == {i \in 1..Len(t) : EtaMatchAt(t, i) # Undefined}
    IN IF hits = {} THEN Undefined ELSE EtaMatchAt(t, Least(hits))

\* /\[Merger\]/.test(line)
TestMerger(t) ==
    \E i \in 1..Len(t) : LitAt(t, i, <<"[", "M", "e", "r", "g", "e", "r", "]">>)

\* /\[ExtractAudio\]|\[Fixup/.test(line)
TestPostprocess(t) ==
    \E i \in 1..Len(t) :
        \/ LitAt(t, i, <<"[", "E", "x", "t", "r", "a", "c", "t", "A", "u", "d", "i", "o", "]">>)
        \/ LitAt(t, i, <<"[", "F", "i", "x", "u", "p">>)

RECURSIVE Pow10(_)
Pow10(n) == IF n = 0 THEN 1 ELSE 10 * Pow10(n - 1)

\* Faulty variant of PctRatio: without Math.min.
PctRatio_NoCap(g) ==
    LET n1 == DigitRun(g, 1)
        fr == IF n1 < Len(g) THEN SubSeq(g, n1 + 2, Len(g)) ELSE <<>>
        den == Pow10(Len(fr))
        num == DecVal(SubSeq(g, 1, n1)) * den + DecVal(fr)
    IN Ratio(num, 100 * den)

\* Math.min(100, parseFloat(g)) / 100 for g matching \d{1,3}(\.\d+)?, exactly.
PctRatio(g) ==
    LET n1 == DigitRun(g, 1)
        fr == IF n1 < Len(g) THEN SubSeq(g, n1 + 2, Len(g)) ELSE <<>>
        den == Pow10(Len(fr))
        num == DecVal(SubSeq(g, 1, n1)) * den + DecVal(fr)
    IN Ratio(Min(100 * den, num), 100 * den)

\* A DownloadProgress value: absent fields are Undefined.
Event(phase, ratio, speed, eta) ==
    [phase |-> phase, ratio |-> ratio, speed |-> speed, eta |-> eta]
PhaseEvent(phase) == Event(phase, Undefined, Undefined, Undefined)

(***************************************************************************)
(* The downloader's output stream                                          *)
(***************************************************************************)

\* Most data events of one download run, and most lines in one data event.
MaxDlChunks == 2
MaxLines == 2

\* A progress line: the percentage as printed, its value pctNum / pctDen, and
\* the speed and ETA it shows (Undefined when it shows none).
ProgressLine(pct, pctNum, pctDen, speed, eta) ==
    [kind |-> "progress", pct |-> pct, pctNum |-> pctNum, pctDen |-> pctDen,
     speed |-> speed, eta |-> eta]
OtherLine(kind) ==
    [kind |-> kind, pct |-> <<>>, pctNum |-> 0, pctDen |-> 1,
     speed |-> Undefined, eta |-> Undefined]

\* "[download]  12.3% of 5MiB at 2.50MiB/s ETA 00:30", "[download]  100% of
\* 5MiB in 00:20" and "[download]  150.0% of 5MiB at 9KiB/s".
ProgressLines ==
    {ProgressLine(<<"1", "2", ".", "3">>, 123, 10, Some(<<"2", ".", "5", "0", "M", "i", "B", "/", "s">>), Some(<<"0", "0", ":", "3", "0">>)),
     ProgressLine(<<"1", "0", "0">>, 100, 1, Undefined, Undefined),
     ProgressLine(<<"1", "5", "0", ".", "0">>, 1500, 10, Some(<<"9", "K", "i", "B", "/", "s">>), Undefined)}

\* The lines of the downloader: progress lines, a destination line, a merger
\* line, a fix-up line and an audio-extraction line.
DownloadLines ==
    ProgressLines \cup {OtherLine(k) : k \in {"dest", "merger", "fixup", "extract"}}

\* The text of a line, ended by a newline (--newline).
RenderLine(l) ==
    (CASE l.kind = "progress" ->
            DownloadTag \o <<" ", " ">> \o l.pct \o <<"%", " ", "o", "f", " ", "5", "M", "i", "B">>
            \o (IF l.speed # Undefined THEN <<" ", "a", "t", " ">> \o l.speed[1]
                ELSE <<" ", "i", "n", " ", "0", "0", ":", "2", "0">>)
            \o (IF l.eta # Undefined THEN <<" ", "E", "T", "A", " ">> \o l.eta[1] ELSE <<>>)
       [] l.kind = "dest" -> DownloadTag \o <<" ", "D", "e", "s", "t", "i", "n", "a", "t", "i", "o", "n", ":", " ", "f", ".", "m", "p", "4">>
       [] l.kind = "merger" -> <<"[", "M", "e", "r", "g", "e", "r", "]", " ", "M", "e", "r", "g", "i", "n", "g", " ", "f", "o", "r", "m", "a", "t", "s">>
       [] l.kind = "fixup" -> <<"[", "F", "i", "x", "u", "p", "M", "3", "u", "8", "]", " ", "F", "i", "x", "i", "n", "g">>
       [] l.kind = "extract" -> <<"[", "E", "x", "t", "r", "a", "c", "t", "A", "u", "d", "i", "o", "]", " ", "D", "e", "s", "t", "i", "n", "a", "t", "i", "o", "n", ":", " ", "a", ".", "m", "4", "a">>)
    \o <<"\n">>

RECURSIVE RenderLines(_)
RenderLines(c) == IF c = <<>> THEN <<>> ELSE RenderLine(Head(c)) \o RenderLines(Tail(c))

\* The chunks a stdout data event may carry: one to MaxLines whole lines.
StdoutChunks == UNION {[1..n -> DownloadLines] : n \in 1..MaxLines}

\* The text a stderr data event carries: a warning that quotes a progress line.
StderrNoise == <<"W", "A", "R", "N", "I", "N", "G", ":", " ", "[", "d", "o", "w", "n", "l", "o", "a", "d", "]", " ", " ", "5", "0", ".", "0", "%", " ", "a", "t", " ", "1", "M", "i", "B", "/", "s", " ", "E", "T", "A", " ", "0", "0", ":", "0", "9", " ", "[", "M", "e", "r", "g", "e", "r", "]", "\n">>

\* The text of every chunk and the regular expressions' results on it, each
\* computed once.
StdoutText == [c \in StdoutChunks |-> RenderLines(c)]
StdoutTexts == {StdoutText[c] : c \in StdoutChunks}
ExecPctOf == [t \in StdoutTexts |-> ExecPctAt(t)]
ExecSpeedOf == [t \in StdoutTexts |-> ExecSpeedAt(t)]
ExecEtaOf == [t \in StdoutTexts |-> ExecEtaAt(t)]

\* /\[download\]\s+(\d{1,3}(?:\.\d+)?)%/.exec(line)
ExecPct(line) == ExecPctOf[line]
\* /at\s+([^\s]+\/s)/.exec(line)?.[1]
ExecSpeed(line) == ExecSpeedOf[line]
\* /ETA\s+([^\s]+)/.exec(line)?.[1]
ExecEta(line) == ExecEtaOf[line]

\* The events of the phase markers of a chunk without a percentage.
PhaseEvents(line) ==
    (IF TestMerger(line) THEN <<PhaseEvent("merging")>> ELSE <<>>)
    \o (IF TestPostprocess(line) THEN <<PhaseEvent("postprocessing")>> ELSE <<>>)

\* Faulty variant of DownloadOnStdout: no return after the downloading event.
DownloadOnStdout_NoReturn(d, line) ==
    LET m == ExecPct(line)
    IN IF m # Undefined
       THEN [d EXCEPT !.events =
                Append(@, Event("downloading", Some(PctRatio(m[1])),
                                ExecSpeed(line), ExecEta(line)))
                \o PhaseEvents(line)]
       ELSE [d EXCEPT !.events = @ \o PhaseEvents(line)]

\* child.stdout.on('data', ...) of startDownload.
DownloadOnStdout(d, line) ==
    LET m == ExecPct(line)
    IN IF m # Undefined
       THEN [d EXCEPT !.events =
                Append(@, Event("downloading", Some(PctRatio(m[1])),
                                ExecSpeed(line), ExecEta(line)))]
       ELSE [d EXCEPT !.events = @ \o PhaseEvents(line)]

\* child.stderr.on('data', ...) of startDownload: nothing is parsed.
DownloadOnStderr(d, text) == d

\* child.on('error', reject)
DownloadOnError(d, errno) ==
    [d EXCEPT !.promise = Settle(@, Rejected("spawn", errno))]

\* Faulty variant of DownloadOnClose: completed is emitted whatever the code.
DownloadOnClose_AlwaysCompleted(d, code) ==
    LET e == [d EXCEPT !.events = Append(@, PhaseEvent("completed"))]
    IN IF code = 0
       THEN [e EXCEPT !.promise = Settle(@, Resolved)]
       ELSE [e EXCEPT !.promise = Settle(@, Rejected("yt-dlp failed with code", code))]

\* child.on('close', ...)
DownloadOnClose(d, code) ==
    IF code = 0
    THEN [d EXCEPT !.events = Append(@, PhaseEvent("completed")),
                   !.promise = Settle(@, Resolved)]
    ELSE [d EXCEPT !.promise = Settle(@, Rejected("yt-dlp failed with code", code))]

\* The argument vector of startDownload.
DownloadArgs(opts) ==
    <<"--no-playlist", "--newline", "--merge-output-format", "mp4",
      "-o", opts.outputPath, opts.url>>

(***************************************************************************)
(* Requests                                                                *)
(***************************************************************************)

\* Trim points, in 1/Scale seconds: 0, 2.0 and 7.5.
TrimTimes == {0, 2 * Scale, 7 * Scale + 50}

\* Watermark texts: the empty text, "WM" and two holding backslashes, colons and quotes.
WmTexts == {<<>>, <<"W", "M">>, <<"a", "\\", ":", "'", "b">>, <<"'", "\\", "\\", ":", ":">>}

FontFiles == {Undefined, Some(<<>>), Some(<<"C", ":", "\\", "f", ".", "t", "t", "f">>)}
WmImagePaths == {Undefined, Some(""), Some("/tmp/wm_1.png")}
Anchors == {"topLeft", "topRight", "bottomLeft", "bottomRight"}
Offsets == {0, 24}
Qualities == {18, 23}

Project(text, fontSizePx, anchor, offsetX, offsetY, hw, quality) ==
    [watermark |-> [text |-> text,
                    color |-> <<"#", "f", "f", "f", "f", "f", "f">>,
                    opacity |-> 80,
                    fontSizePx |-> fontSizePx,
                    anchor |-> anchor, offsetX |-> offsetX, offsetY |-> offsetY],
     export |-> [useHardwareAccel |-> hw, quality |-> [value |-> quality]]]

\* The ExportOptions the Command Builder is checked on.
Requests ==
    {[input |-> "in.mp4", output |-> "out.mp4", startSec |-> s, endSec |-> e,
      project |-> Project(t, fs, a, ox, oy, hw, q), fontFile |-> ff,
      wmImagePath |-> wp] :
        s \in TrimTimes, e \in TrimTimes, t \in WmTexts, fs \in {0, 32 * Scale + 50},
        a \in Anchors, ox \in Offsets, oy \in Offsets, hw \in BOOLEAN,
        q \in Qualities, ff \in FontFiles, wp \in WmImagePaths}

\* The ExportOptions export runs are started with: every trim window, with
\* and without a raster watermark.
RunRequests ==
    {[input |-> "in.mp4", output |-> "out.mp4", startSec |-> s, endSec |-> e,
      project |-> Project(<<"W", "M">>, 32 * Scale, "bottomRight", 24, 24, FALSE, 18),
      fontFile |-> Undefined, wmImagePath |-> wp] :
        s \in TrimTimes \ {7 * Scale + 50}, e \in TrimTimes,
        wp \in {Undefined, Some("/tmp/wm_1.png")}}

(***************************************************************************)
(* Export runs                                                             *)
(***************************************************************************)

\* Exit codes of a transcoder that ran, and the negative errno that Node
\* hands to 'close' after a failed spawn (ENOENT, EACCES).
ExitCodes == {0, 1, 255}
SpawnErrnos == {0 - 2, 0 - 13}

\* exportWithProgress up to the return of the promise: arguments built, child
\* spawned, lastRatio = 0, promise pending.  code is the code 'close' (or the
\* errno 'error') came with; nData, seen, later and before observe the data
\* events.
StartRun(opts) ==
    [pc |-> "running", opts |-> opts, args |-> buildFfmpegArgs(opts),
     promise |-> Pending, lastRatio |-> Zero, calls |-> <<>>,
     errored |-> FALSE, code |-> Undefined,
     nData |-> 0, seen |-> Undefined, later |-> FALSE, before |-> 0]

\* The runs that have been started.
Started == DOMAIN ex

ExportStart(r) ==
    /\ r \notin Started
    /\ \E o \in RunRequests : ex' = (r :> StartRun(o)) @@ ex
    /\ UNCHANGED <<req, args, dl>> /\ UNCHANGED appVars /\ UNCHANGED auxVars

\* A data event on the child's stderr.  seen and before record what the chunk
\* said and how many callbacks had fired before it.
ExportStderr(r) ==
    /\ r \in Started
    /\ ex[r].pc = "running" /\ ~ex[r].errored
    /\ ex[r].nData < MaxChunks
    /\ \E c \in StderrChunks :
          ex' = [ex EXCEPT ![r] =
                    [ExportOnData(ex[r], StderrText[c]) EXCEPT
                        !.nData = @ + 1, !.seen = FirstStamp(c), !.later = LaterStamp(c),
                        !.before = Len(ex[r].calls)]]
    /\ UNCHANGED <<req, args, dl>> /\ UNCHANGED appVars /\ UNCHANGED auxVars

\* The child could not be spawned: 'error' is emitted, no data ever arrives.
ExportSpawnError(r) ==
    /\ r \in Started
    /\ ex[r].pc = "running" /\ ~ex[r].errored /\ ex[r].nData = 0
    /\ \E errno \in SpawnErrnos :
          ex' = [ex EXCEPT ![r] =
                    [ExportOnError(ex[r], errno) EXCEPT
                        !.errored = TRUE, !.code = Some(errno)]]
    /\ UNCHANGED <<req, args, dl>> /\ UNCHANGED appVars /\ UNCHANGED auxVars

\* 'close': with the exit code of a child that ran, or, after a failed spawn,
\* with the errno of the failure.
ExportClose(r) ==
    /\ r \in Started
    /\ ex[r].pc = "running"
    /\ \E code \in (IF ex[r].errored THEN {ex[r].code[1]} ELSE ExitCodes) :
          ex' = [ex EXCEPT ![r] =
                    [ExportOnClose(ex[r], code) EXCEPT
                        !.pc = "closed", !.code = Some(code)]]
    /\ UNCHANGED <<req, args, dl>> /\ UNCHANGED appVars /\ UNCHANGED auxVars

(***************************************************************************)
(* Concurrent export runs                                                  *)
(***************************************************************************)

\* Data events per run when several runs are active.
MaxPairData == 2

\* The runs that can be active together.
PairRuns == {1, 2}

\* Their requests: trim windows of 2 s and of 7.5 s.
PairRequests ==
    {o \in RunRequests : o.startSec = 0 /\ o.endSec > 0 /\ o.wmImagePath = Undefined}

\* Their chunks: noise, time=00:00:02.00 and time=00:00:05.
PairChunks ==
    {<<[kind |-> "noise", sec |-> 0, frac |-> NoFrac]>>,
     <<Stamp(2, NoFrac)>>, <<Stamp(5, DotFrac)>>}

\* exportWithProgress is called while other calls are in progress.
PairStart(r) ==
    /\ r \notin Started
    /\ \E o \in PairRequests : ex' = (r :> StartRun(o)) @@ ex
    /\ UNCHANGED <<req, args, dl>> /\ UNCHANGED appVars /\ UNCHANGED auxVars

\* Faulty variant of PairStderr: lastRatio is one variable shared by the runs.
PairStderr_SharedLastRatio(r) ==
    /\ r \in Started
    /\ ex[r].pc = "running" /\ ~ex[r].errored
    /\ ex[r].nData < MaxPairData
    /\ \E c \in PairChunks :
          LET shared == CHOOSE p \in {ex[q].lastRatio : q \in Started} :
                            \A q \in Started : RatioLeq(ex[q].lastRatio, p)
              run == [ex[r] EXCEPT !.lastRatio = shared]
          IN ex' = [ex EXCEPT ![r] =
                       [ExportOnData(run, StderrText[c]) EXCEPT
                           !.nData = @ + 1, !.seen = FirstStamp(c), !.later = LaterStamp(c),
                           !.before = Len(ex[r].calls)]]
    /\ UNCHANGED <<req, args, dl>> /\ UNCHANGED appVars /\ UNCHANGED auxVars

\* A data event on the stderr of the child of run r: the listener of that
\* call of exportWithProgress runs, with its own lastRatio and targetDur.
PairStderr(r) ==
    /\ r \in Started
    /\ ex[r].pc = "running" /\ ~ex[r].errored
    /\ ex[r].nData < MaxPairData
    /\ \E c \in PairChunks :
          ex' = [ex EXCEPT ![r] =
                    [ExportOnData(ex[r], StderrText[c]) EXCEPT
                        !.nData = @ + 1, !.seen = FirstStamp(c), !.later = LaterStamp(c),
                        !.before = Len(ex[r].calls)]]
    /\ UNCHANGED <<req, args, dl>> /\ UNCHANGED appVars /\ UNCHANGED auxVars

\* The child of run r closes with an exit code.
PairClose(r) ==
    /\ r \in Started
    /\ ex[r].pc = "running"
    /\ \E code \in {0, 1} :
          ex' = [ex EXCEPT ![r] =
                    [ExportOnClose(ex[r], code) EXCEPT
                        !.pc = "closed", !.code = Some(code)]]
    /\ UNCHANGED <<req, args, dl>> /\ UNCHANGED appVars /\ UNCHANGED auxVars

(***************************************************************************)
(* The download run                                                        *)
(***************************************************************************)

DownloadRequests ==
    {[url |-> u, outputPath |-> "clip.mp4"] :
        u \in {"https://v.example/1", "https://v.example/2?list=PL"}}

DefaultDownload == CHOOSE o \in DownloadRequests : o.url = "https://v.example/1"

\* The run before startDownload is called.
IdleDownload ==
    [pc |-> "idle", opts |-> DefaultDownload, args |-> <<>>, promise |-> Pending,
     events |-> <<>>, errored |-> FALSE, code |-> Undefined,
     nData |-> 0, nErr |-> 0, last |-> <<>>, before |-> 0]

\* startDownload up to the return of the promise: child spawned.
StartDownloadRun(opts) ==
    [IdleDownload EXCEPT !.pc = "running", !.opts = opts, !.args = DownloadArgs(opts)]

DownloadStart ==
    /\ dl.pc = "idle"
    /\ \E o \in DownloadRequests : dl' = StartDownloadRun(o)
    /\ UNCHANGED <<req, args, ex>> /\ UNCHANGED appVars /\ UNCHANGED auxVars

\* A data event on the child's stdout.  last and before record the lines of
\* the chunk and how many events had been emitted before it.
DownloadStdout ==
    /\ dl.pc = "running" /\ ~dl.errored
    /\ dl.nData + dl.nErr < MaxDlChunks
    /\ \E c \in StdoutChunks :
          dl' = [DownloadOnStdout(dl, StdoutText[c]) EXCEPT
                    !.nData = @ + 1, !.last = c, !.before = Len(dl.events)]
    /\ UNCHANGED <<req, args, ex>> /\ UNCHANGED appVars /\ UNCHANGED auxVars

\* A data event on the child's stderr.
DownloadStderr ==
    /\ dl.pc = "running" /\ ~dl.errored
    /\ dl.nData + dl.nErr < MaxDlChunks
    /\ dl' = [DownloadOnStderr(dl, StderrNoise) EXCEPT !.nErr = @ + 1]
    /\ UNCHANGED <<req, args, ex>> /\ UNCHANGED appVars /\ UNCHANGED auxVars

\* The child could not be spawned: 'error' is emitted, no data ever arrives.
DownloadSpawnError ==
    /\ dl.pc = "running" /\ ~dl.errored /\ dl.nData + dl.nErr = 0
    /\ \E errno \in SpawnErrnos :
          dl' = [DownloadOnError(dl, errno) EXCEPT
                    !.errored = TRUE, !.code = Some(errno)]
    /\ UNCHANGED <<req, args, ex>> /\ UNCHANGED appVars /\ UNCHANGED auxVars

\* 'close': with the exit code of a child that ran, or, after a failed spawn,
\* with the errno of the failure.  The streams have ended before it.
DownloadClose ==
    /\ dl.pc = "running"
    /\ \E code \in (IF dl.errored THEN {dl.code[1]} ELSE ExitCodes) :
          dl' = [DownloadOnClose(dl, code) EXCEPT
                    !.pc = "closed", !.code = Some(code)]
    /\ UNCHANGED <<req, args, ex>> /\ UNCHANGED appVars /\ UNCHANGED auxVars

(***************************************************************************)
(* The application: the Export and Download panels of the renderer, the    *)
(* progress subscriptions of the preload script, and the export:start and  *)
(* download:start handlers of the main process                             *)
(***************************************************************************)

\* Most clicks on Export / Download in one session, most data events of one
\* subprocess of the session, most progress subscribers besides the panels,
\* and most calls of one unsubscribe function.
MaxTasks == 2
MaxUiData == 1
MaxSubs == 2
MaxOffCalls == 2

\* The project of the session: source loaded, watermark "WM", trim 0 .. 7.5 s.
UiSource == "in.mp4"
UiUrl == "https://v.example/1"
UiProject == Project(<<"W", "M">>, 32 * Scale, "bottomRight", 24, 24, FALSE, 18)
UiTrim == [startSec |-> 0, endSec |-> 7 * Scale + 50]

\* canvas.toDataURL('image/png') of the pre-rendered watermark.
PngDataUrl ==
    <<"d", "a", "t", "a", ":", "i", "m", "a", "g", "e", "/", "p", "n", "g", ";",
      "b", "a", "s", "e", "6", "4", ",", "i", "V", "B", "O", "R", "w", "=", "=">>
\* What the pre-rendering leaves in wmImageDataUrl: the data URL, or nothing
\* when the canvas calls threw.
Prerendered == {Some(PngDataUrl), Undefined}

\* What the save dialog returns: null (cancelled) or the chosen path.
SaveResults == {Undefined, Some("out.mp4")}

\* The data events of the session's subprocesses.
UiStderrChunks == {<<Stamp(2, NoFrac)>>}
UiStdoutChunks == {<<l>> : l \in {p \in ProgressLines : p.pctDen = 10 /\ p.pctNum = 123}}
UiExitCodes == {0, 1}
UiSpawnErrnos == {0 - 2}

\* The listener the panel registers when it mounts.
PanelId == 0

\* --- renderer: panels -------------------------------------------------

\* The renderer after both panels have mounted: no progress shown, no output
\* path chosen, the panels' listeners registered.  maxTasks and maxSubs are
\* the clicks and the additional subscriptions the session will see.
Mounted(maxTasks, maxSubs) ==
    [progress |-> [export |-> Undefined, download |-> Undefined],
     outputPath |-> [export |-> Undefined, download |-> Undefined],
     tasks |-> <<>>,
     listeners |-> [export |-> {PanelId}, download |-> {PanelId}],
     subs |-> <<>>, lastTo |-> {},
     lastOutcome |-> [export |-> "none", download |-> "none"],
     maxTasks |-> maxTasks, maxSubs |-> maxSubs]

Task(kind, pc, a) == [kind |-> kind, pc |-> pc, args |-> a]

\* disabled={!project.sourcePath || progress !== null}
ExportDisabled(u) == UiSource = "" \/ u.progress.export # Undefined

\* disabled={!url || !!(progress && progress.phase !== 'completed')}
DownloadDisabled(u) ==
    UiUrl = "" \/ (u.progress.download # Undefined
                   /\ u.progress.download[1].phase # "completed")

\* onExport from the pre-rendering on: the request is built, the progress is
\* set to 0 and export:start is invoked.
ExportTrigger(u, t, out, dataUrl) ==
    [u EXCEPT !.outputPath.export = Some(out),
              !.progress.export = Some(Zero),
              !.lastOutcome.export = "none",
              !.tasks[t] = Task("export", "invoked",
                                [input |-> UiSource, output |-> out,
                                 startSec |-> UiTrim.startSec, endSec |-> UiTrim.endSec,
                                 project |-> UiProject, wmImageDataUrl |-> dataUrl])]

\* start from setProgress on: the progress is set to downloading 0 and
\* download:start is invoked.
DownloadTrigger(u, t, out) ==
    [u EXCEPT !.outputPath.download = Some(out),
              !.progress.download = Some(Event("downloading", Some(Zero), Undefined, Undefined)),
              !.lastOutcome.download = "none",
              !.tasks[t] = Task("download", "invoked", [url |-> UiUrl, outputPath |-> out])]

\* Faulty variant of ExportSettled: a failed export leaves the progress as it is.
ExportSettled_KeepsProgress(u, t, ok) ==
    [u EXCEPT !.progress.export = IF ok THEN Some(One) ELSE @,
              !.lastOutcome.export = IF ok THEN "ok" ELSE "failed",
              !.tasks[t].pc = "done"]

\* onExport after await startExport: progress 1 on success, null in the catch.
ExportSettled(u, t, ok) ==
    [u EXCEPT !.progress.export = IF ok THEN Some(One) ELSE Undefined,
              !.lastOutcome.export = IF ok THEN "ok" ELSE "failed",
              !.tasks[t].pc = "done"]

\* start after await startDownload: completed 1 and the probe on success,
\* null in the catch.
DownloadSettled(u, t, ok) ==
    IF ok
    THEN [u EXCEPT !.progress.download = Some(Event("completed", Some(One), Undefined, Undefined)),
                   !.lastOutcome.download = "ok",
                   !.tasks[t].pc = "probing"]
    ELSE [u EXCEPT !.progress.download = Undefined,
                   !.lastOutcome.download = "failed",
                   !.tasks[t].pc = "done"]

\* start after await ffprobe: the catch also takes a failed probe.
DownloadProbed(u, t, ok) ==
    IF ok THEN [u EXCEPT !.tasks[t].pc = "done"]
    ELSE [u EXCEPT !.progress.download = Undefined, !.tasks[t].pc = "done"]

\* --- preload: progress subscriptions ------------------------------------

\* ipcRenderer.on(channel, handler)
On(listeners, kind, id) == [listeners EXCEPT ![kind] = @ \cup {id}]

\* Faulty variant of Off: every listener of the channel is removed.
Off_RemovesAll(listeners, kind, id) == [listeners EXCEPT ![kind] = {}]

\* ipcRenderer.off(channel, handler): removes that handler if it is registered.
Off(listeners, kind, id) == [listeners EXCEPT ![kind] = @ \ {id}]

\* A message of the main process: a progress event of a run, or the outcome
\* of an invoke.
ProgressMsg(kind, h, data) == [type |-> "progress", kind |-> kind, h |-> h, data |-> data]
ReplyMsg(kind, h, ok) == [type |-> "reply", kind |-> kind, h |-> h, data |-> ok]

\* A progress message reaches the renderer: every registered handler calls
\* its callback; the panel's callback is setProgress.
Deliver(u, msg) ==
    LET to == u.listeners[msg.kind]
    IN [u EXCEPT !.progress[msg.kind] = IF PanelId \in to THEN Some(msg.data) ELSE @,
                 !.lastTo = to \ {PanelId}]

\* --- main process: export:start and download:start ------------------------

DataUrlPrefix ==
    <<"d", "a", "t", "a", ":", "i", "m", "a", "g", "e", "/", "p", "n", "g", ";",
      "b", "a", "s", "e", "6", "4", ",">>

\* /^data:image\/png;base64,(.+)$/.exec(url): the group, or Undefined.
ExecDataUrl(url) ==
    LET n == Len(DataUrlPrefix)
    IN IF /\ LitAt(url, 1, DataUrlPrefix)
          /\ Len(url) > n
          /\ \A i \in (n + 1)..Len(url) : url[i] \notin {"\n", "\r"}
       THEN Some(SubSeq(url, n + 1, Len(url)))
       ELSE Undefined

\* path.join(os.tmpdir(), `wm_${Date.now()}_${random}.png`): a name no other
\* invocation uses.
TmpPath(h) == "/tmp/wm_" \o NatStr(h) \o ".png"

\* Buffer.from(text, 'base64')
Base64Buffer(text) == [decodedFrom |-> text]

\* export:start up to the call of exportWithProgress: the raster path (when
\* the request carries a PNG data URL) and the ExportOptions handed over.
ExportHandler(h, opts) ==
    LET url == opts.wmImageDataUrl
        m == IF TruthyChars(url) THEN ExecDataUrl(url[1]) ELSE Undefined
        wmPath == IF m # Undefined THEN Some(TmpPath(h)) ELSE Undefined
        a == [input |-> opts.input, output |-> opts.output,
              startSec |-> opts.startSec, endSec |-> opts.endSec,
              project |-> opts.project, wmImageDataUrl |-> opts.wmImageDataUrl,
              fontFile |-> Undefined, wmImagePath |-> wmPath]
    IN [kind |-> "export", pc |-> "awaiting", opts |-> opts, wmPath |-> wmPath,
        buf |-> IF m # Undefined THEN Some(Base64Buffer(m[1])) ELSE Undefined,
        args |-> a, run |-> StartRun(a)]

\* download:start up to the call of startDownload.
DownloadHandler(h, opts) ==
    LET a == [url |-> opts.url, outputPath |-> opts.outputPath]
    IN [kind |-> "download", pc |-> "awaiting", opts |-> opts, wmPath |-> Undefined,
        buf |-> Undefined, args |-> a, run |-> StartDownloadRun(a)]

\* fs.writeFile(tmp, buf)
WriteFile(fs, path, buf) == (path :> buf) @@ fs

\* fs.unlink(path)
Unlink(fs, path) == [p \in (DOMAIN fs) \ {path} |-> fs[p]]

\* Faulty variant of Cleanup: the file is removed only after a successful export.
Cleanup_OnlyOnSuccess(fs, handler) ==
    IF handler.wmPath # Undefined /\ handler.run.promise.state = "resolved"
    THEN Unlink(fs, handler.wmPath[1]) ELSE fs

\* The finally block of export:start: if (wmPath) unlink it.
Cleanup(fs, handler) ==
    IF TruthyStr(handler.wmPath) THEN Unlink(fs, handler.wmPath[1]) ELSE fs

\* --- actions ---------------------------------------------------------

Tasks == 1..Len(ui.tasks)
Handlers == DOMAIN main

\* A click on Export: onExport up to its first await (the save dialog, when
\* no output path is set, or the invoke).
UiExportClick ==
    /\ Len(ui.tasks) < ui.maxTasks
    /\ ~ExportDisabled(ui)
    /\ LET t == Len(ui.tasks) + 1
           u == [ui EXCEPT !.tasks = Append(@, Task("export", "dialog", <<>>))]
       IN IF ui.outputPath.export = Undefined
          THEN ui' = u
          ELSE \E d \in Prerendered : ui' = ExportTrigger(u, t, ui.outputPath.export[1], d)
    /\ UNCHANGED <<req, args, ex, dl, files, main, chan>> /\ UNCHANGED auxVars

\* The save dialog of onExport returns.
UiExportSaveResult(t) ==
    /\ t \in Tasks
    /\ ui.tasks[t].kind = "export" /\ ui.tasks[t].pc = "dialog"
    /\ \E out \in SaveResults :
          IF out = Undefined
          THEN ui' = [ui EXCEPT !.tasks[t].pc = "done"]
          ELSE \E d \in Prerendered : ui' = ExportTrigger(ui, t, out[1], d)
    /\ UNCHANGED <<req, args, ex, dl, files, main, chan>> /\ UNCHANGED auxVars

\* A click on Download: start up to its first await.
UiDownloadClick ==
    /\ Len(ui.tasks) < ui.maxTasks
    /\ ~DownloadDisabled(ui)
    /\ LET t == Len(ui.tasks) + 1
           u == [ui EXCEPT !.tasks = Append(@, Task("download", "dialog", <<>>))]
       IN IF ui.outputPath.download = Undefined
          THEN ui' = u
          ELSE ui' = DownloadTrigger(u, t, ui.outputPath.download[1])
    /\ UNCHANGED <<req, args, ex, dl, files, main, chan>> /\ UNCHANGED auxVars

\* The save dialog of start returns.
UiDownloadSaveResult(t) ==
    /\ t \in Tasks
    /\ ui.tasks[t].kind = "download" /\ ui.tasks[t].pc = "dialog"
    /\ \E out \in SaveResults :
          IF out = Undefined
          THEN ui' = [ui EXCEPT !.tasks[t].pc = "done"]
          ELSE ui' = DownloadTrigger(ui, t, out[1])
    /\ UNCHANGED <<req, args, ex, dl, files, main, chan>> /\ UNCHANGED auxVars

\* ffprobe of the downloaded file returns or fails.
UiDownloadProbed(t) ==
    /\ t \in Tasks
    /\ ui.tasks[t].kind = "download" /\ ui.tasks[t].pc = "probing"
    /\ \E ok \in BOOLEAN : ui' = DownloadProbed(ui, t, ok)
    /\ UNCHANGED <<req, args, ex, dl, files, main, chan>> /\ UNCHANGED auxVars

\* The renderer takes the next message of the main process: a progress event
\* goes to the registered handlers, the outcome of an invoke resumes the
\* panel handler that awaits it.
RendererReceive ==
    /\ chan # <<>>
    /\ LET msg == Head(chan)
       IN ui' = IF msg.type = "progress" THEN Deliver(ui, msg)
                ELSE IF msg.kind = "export" THEN ExportSettled(ui, msg.h, msg.data)
                ELSE DownloadSettled(ui, msg.h, msg.data)
    /\ chan' = Tail(chan)
    /\ UNCHANGED <<req, args, ex, dl, files, main>> /\ UNCHANGED auxVars

\* onExportProgress(cb) / onDownloadProgress(cb) by another subscriber.
Subscribe(kind) ==
    /\ Len(ui.subs) < ui.maxSubs
    /\ LET id == Len(ui.subs) + 1
       IN ui' = [ui EXCEPT !.subs = Append(@, [kind |-> kind, offs |-> 0]),
                           !.listeners = On(@, kind, id)]
    /\ UNCHANGED <<req, args, ex, dl, files, main, chan>> /\ UNCHANGED auxVars

\* A call of the unsubscribe function that a subscription returned.
Unsubscribe(id) ==
    /\ id \in 1..Len(ui.subs)
    /\ ui.subs[id].offs < MaxOffCalls
    /\ ui' = [ui EXCEPT !.subs[id].offs = @ + 1,
                        !.listeners = Off(@, ui.subs[id].kind, id)]
    /\ UNCHANGED <<req, args, ex, dl, files, main, chan>> /\ UNCHANGED auxVars

\* export:start is invoked: the raster is written to a temporary file and
\* exportWithProgress is called.
MainExportBegin(h) ==
    /\ h \in Tasks /\ h \notin Handlers
    /\ ui.tasks[h].kind = "export" /\ ui.tasks[h].pc = "invoked"
    /\ LET handler == ExportHandler(h, ui.tasks[h].args)
       IN /\ main' = (h :> handler) @@ main
          /\ files' = IF handler.wmPath # Undefined
                      THEN WriteFile(files, handler.wmPath[1], handler.buf[1])
                      ELSE files
    /\ UNCHANGED <<req, args, ex, dl, chan, ui>> /\ UNCHANGED auxVars

\* A data event on the transcoder's stderr; the callback of the handler sends
\* each ratio to the renderer.
MainExportStderr(h) ==
    /\ h \in Handlers /\ main[h].kind = "export"
    /\ main[h].run.pc = "running" /\ ~main[h].run.errored
    /\ main[h].run.nData < MaxUiData
    /\ \E c \in UiStderrChunks :
          LET run == [ExportOnData(main[h].run, StderrText[c]) EXCEPT
                          !.nData = @ + 1, !.seen = FirstStamp(c), !.later = LaterStamp(c),
                          !.before = Len(main[h].run.calls)]
              new == SubSeq(run.calls, run.before + 1, Len(run.calls))
          IN /\ main' = [main EXCEPT ![h].run = run]
             /\ chan' = chan \o [i \in 1..Len(new) |-> ProgressMsg("export", h, new[i])]
    /\ UNCHANGED <<req, args, ex, dl, files, ui>> /\ UNCHANGED auxVars

\* The transcoder could not be spawned.
MainExportSpawnError(h) ==
    /\ h \in Handlers /\ main[h].kind = "export"
    /\ main[h].run.pc = "running" /\ ~main[h].run.errored /\ main[h].run.nData = 0
    /\ \E errno \in UiSpawnErrnos :
          main' = [main EXCEPT ![h].run =
                      [ExportOnError(@, errno) EXCEPT
                          !.errored = TRUE, !.code = Some(errno)]]
    /\ UNCHANGED <<req, args, ex, dl, files, chan, ui>> /\ UNCHANGED auxVars

\* Faulty variant of MainExportClose: the runner removes the raster file when
\* the transcoder closes.
MainExportClose_Unlinks(h) ==
    /\ h \in Handlers /\ main[h].kind = "export"
    /\ main[h].run.pc = "running"
    /\ \E code \in (IF main[h].run.errored THEN {main[h].run.code[1]} ELSE UiExitCodes) :
          main' = [main EXCEPT ![h].run =
                      [ExportOnClose(@, code) EXCEPT
                          !.pc = "closed", !.code = Some(code)]]
    /\ files' = Cleanup(files, main[h])
    /\ UNCHANGED <<req, args, ex, dl, chan, ui>> /\ UNCHANGED auxVars

\* 'close' of the transcoder.
MainExportClose(h) ==
    /\ h \in Handlers /\ main[h].kind = "export"
    /\ main[h].run.pc = "running"
    /\ \E code \in (IF main[h].run.errored THEN {main[h].run.code[1]} ELSE UiExitCodes) :
          main' = [main EXCEPT ![h].run =
                      [ExportOnClose(@, code) EXCEPT
                          !.pc = "closed", !.code = Some(code)]]
    /\ UNCHANGED <<req, args, ex, dl, files, chan, ui>> /\ UNCHANGED auxVars

\* The promise of exportWithProgress has settled: the finally block removes
\* the temporary file and the outcome goes to the renderer.
MainExportFinally(h) ==
    /\ h \in Handlers /\ main[h].kind = "export"
    /\ main[h].pc = "awaiting" /\ main[h].run.promise.state # "pending"
    /\ files' = Cleanup(files, main[h])
    /\ chan' = Append(chan, ReplyMsg("export", h, main[h].run.promise.state = "resolved"))
    /\ main' = [main EXCEPT ![h].pc = "done"]
    /\ UNCHANGED <<req, args, ex, dl, ui>> /\ UNCHANGED auxVars

\* download:start is invoked: startDownload is called.
MainDownloadBegin(h) ==
    /\ h \in Tasks /\ h \notin Handlers
    /\ ui.tasks[h].kind = "download" /\ ui.tasks[h].pc = "invoked"
    /\ main' = (h :> DownloadHandler(h, ui.tasks[h].args)) @@ main
    /\ UNCHANGED <<req, args, ex, dl, files, chan, ui>> /\ UNCHANGED auxVars

\* A data event on the downloader's stdout; the callback of the handler sends
\* each event to the renderer.
MainDownloadStdout(h) ==
    /\ h \in Handlers /\ main[h].kind = "download"
    /\ main[h].run.pc = "running" /\ ~main[h].run.errored
    /\ main[h].run.nData < MaxUiData
    /\ \E c \in UiStdoutChunks :
          LET run == [DownloadOnStdout(main[h].run, StdoutText[c]) EXCEPT
                          !.nData = @ + 1, !.last = c,
                          !.before = Len(main[h].run.events)]
              new == SubSeq(run.events, run.before + 1, Len(run.events))
          IN /\ main' = [main EXCEPT ![h].run = run]
             /\ chan' = chan \o [i \in 1..Len(new) |-> ProgressMsg("download", h, new[i])]
    /\ UNCHANGED <<req, args, ex, dl, files, ui>> /\ UNCHANGED auxVars

\* The downloader could not be spawned.
MainDownloadSpawnError(h) ==
    /\ h \in Handlers /\ main[h].kind = "download"
    /\ main[h].run.pc = "running" /\ ~main[h].run.errored /\ main[h].run.nData = 0
    /\ \E errno \in UiSpawnErrnos :
          main' = [main EXCEPT ![h].run =
                      [DownloadOnError(@, errno) EXCEPT
                          !.errored = TRUE, !.code = Some(errno)]]
    /\ UNCHANGED <<req, args, ex, dl, files, chan, ui>> /\ UNCHANGED auxVars

\* 'close' of the downloader; with code 0 the completed event goes to the
\* renderer.
MainDownloadClose(h) ==
    /\ h \in Handlers /\ main[h].kind = "download"
    /\ main[h].run.pc = "running"
    /\ \E code \in (IF main[h].run.errored THEN {main[h].run.code[1]} ELSE UiExitCodes) :
          LET run == [DownloadOnClose(main[h].run, code) EXCEPT
                          !.pc = "closed", !.code = Some(code)]
              new == SubSeq(run.events, Len(main[h].run.events) + 1, Len(run.events))
          IN /\ main' = [main EXCEPT ![h].run = run]
             /\ chan' = chan \o [i \in 1..Len(new) |-> ProgressMsg("download", h, new[i])]
    /\ UNCHANGED <<req, args, ex, dl, files, ui>> /\ UNCHANGED auxVars

\* The promise of startDownload has settled: the outcome goes to the renderer.
MainDownloadReply(h) ==
    /\ h \in Handlers /\ main[h].kind = "download"
    /\ main[h].pc = "awaiting" /\ main[h].run.promise.state # "pending"
    /\ chan' = Append(chan, ReplyMsg("download", h, main[h].run.promise.state = "resolved"))
    /\ main' = [main EXCEPT ![h].pc = "done"]
    /\ UNCHANGED <<req, args, ex, dl, files, ui>> /\ UNCHANGED auxVars

(***************************************************************************)
(* The project store of the renderer: App.openFile, the Set In / Set Out   *)
(* callbacks of the preview, the probe callback of the download panel and  *)
(* the TimelinePanel of renderer/ui/App.tsx                                *)
(***************************************************************************)

\* Probes that may be pending at once.
MaxPending == 2

\* The media files a session works on: path -> duration in 1/Scale seconds,
\* which is both what the <video> element plays and what a successful probe
\* reports.
MediaFiles == ("a.mp4" :> 2 * Scale) @@ ("b.mp4" :> 4 * Scale)

\* What a probe can answer for a file: metadata with the duration, metadata
\* without a duration (durationSec null), or a failure.
ProbeAnswers(file) ==
    {[ok |-> TRUE, durationSec |-> Some(MediaFiles[file])],
     [ok |-> TRUE, durationSec |-> Undefined],
     [ok |-> FALSE, durationSec |-> Undefined]}

\* v.currentTime of the <video> element showing the source: whole seconds
\* from 0 to the end of the medium.
CurrentTimes(p) ==
    IF p.sourcePath = Undefined THEN {}
    ELSE {s * Scale : s \in 0..(MediaFiles[p.sourcePath[1]] \div Scale)}

\* Positions of the mouse over the track, in percent of its width.
TrackPcts == {0, 25, 50, 75, 100}

\* defaultProject() and the initial state of TimelinePanel.
defaultProject ==
    [sourcePath |-> Undefined,
     video |-> [durationSec |-> Undefined],
     trim |-> [startSec |-> 0, endSec |-> 0],
     localStart |-> 0, localEnd |-> 0, dragging |-> "none",
     probes |-> <<>>]

\* A store that is not used.
NoProject == [defaultProject EXCEPT !.dragging = "unmounted"]

\* The effects of TimelinePanel that copy the props start and end into
\* localStart and localEnd after a render.
SyncTimeline(p) ==
    [p EXCEPT !.localStart = p.trim.startSec, !.localEnd = p.trim.endSec]

\* The duration prop of TimelinePanel: project.video.durationSec ?? 0.
DurationProp(p) ==
    IF p.video.durationSec = Undefined THEN 0 ELSE p.video.durationSec[1]

\* clamp of TimelinePanel.  Without a positive duration the upper limit is
\* Number.MAX_SAFE_INTEGER, which no time of the model reaches.
clamp(duration, v) ==
    Max(0, IF duration > 0 THEN Min(duration, v) ELSE v)

\* onSetIn / onSetOut of App.
onSetIn(p, t) ==
    [p EXCEPT !.trim = [startSec |-> Min(t, p.trim.endSec), endSec |-> p.trim.endSec]]

onSetOut(p, t) ==
    [p EXCEPT !.trim = [startSec |-> p.trim.startSec,
                        endSec |-> Max(t, p.trim.startSec)]]

\* onStartChange / onEndChange of TimelinePanel, with onChange of App.
onStartChange(p, v) ==
    LET s == clamp(DurationProp(p), Min(v, p.localEnd))
    IN [p EXCEPT !.localStart = s,
                 !.trim = [startSec |-> s, endSec |-> p.localEnd]]

onEndChange(p, v) ==
    LET e == clamp(DurationProp(p), Max(v, p.localStart))
    IN [p EXCEPT !.localEnd = e,
                 !.trim = [startSec |-> p.localStart, endSec |-> e]]

Abs(n) == IF n < 0 THEN 0 - n ELSE n

\* handleTrackClick: the handle closer to the click moves to it.  The
\* distances are compared in percent times duration.
handleTrackClick(p, clickPct) ==
    LET duration == DurationProp(p)
        clickTime == (clickPct * duration) \div 100
        distanceToStart == Abs(clickPct * duration - 100 * p.localStart)
        distanceToEnd == Abs(clickPct * duration - 100 * p.localEnd)
    IN IF duration <= 0 THEN p
       ELSE IF distanceToStart <= distanceToEnd
            THEN onStartChange(p, clickTime)
            ELSE onEndChange(p, clickTime)

\* handleMouseMove while a handle is dragged.
handleMouseMove(p, clickPct) ==
    LET clickTime == (Max(0, Min(100, clickPct)) * DurationProp(p)) \div 100
    IN IF p.dragging = "start" THEN onStartChange(p, clickTime)
                               ELSE onEndChange(p, clickTime)

\* The state update of openFile and of DownloadPanel's onProbe when the probe
\* has answered with metadata.
onProbe(p, meta) ==
    [p EXCEPT !.video = [durationSec |-> meta.durationSec],
              !.trim = [startSec |-> 0,
                        endSec |-> IF meta.durationSec = Undefined THEN 0
                                   ELSE meta.durationSec[1]]]

\* openFile up to its await of the probe, and onDownloaded of the download
\* panel followed by its call of the probe: the source is replaced at once.
SourceChosen(file) ==
    /\ proj.dragging \in {"none", "start", "end"}
    /\ Len(proj.probes) < MaxPending
    /\ proj' = [proj EXCEPT !.sourcePath = Some(file), !.probes = Append(@, file)]

OpenFile ==
    /\ \E file \in DOMAIN MediaFiles : SourceChosen(file)
    /\ UNCHANGED runVars /\ UNCHANGED appVars /\ UNCHANGED <<pb, loc>>

Downloaded ==
    /\ \E file \in DOMAIN MediaFiles : SourceChosen(file)
    /\ UNCHANGED runVars /\ UNCHANGED appVars /\ UNCHANGED <<pb, loc>>

\* A pending probe answers: the continuation of openFile or of
\* DownloadPanel.start runs.  A failure leaves the store as it is.
Remove(s, i) == [j \in 1..(Len(s) - 1) |-> IF j < i THEN s[j] ELSE s[j + 1]]

Probed ==
    /\ \E i \in 1..Len(proj.probes) :
          \E answer \in ProbeAnswers(proj.probes[i]) :
              LET q == [proj EXCEPT !.probes = Remove(@, i)]
              IN proj' = IF answer.ok THEN SyncTimeline(onProbe(q, answer)) ELSE q
    /\ UNCHANGED runVars /\ UNCHANGED appVars /\ UNCHANGED <<pb, loc>>

\* The keys i and o and the Set In / Set Out buttons.
SetIn ==
    /\ \E t \in CurrentTimes(proj) : proj' = SyncTimeline(onSetIn(proj, t))
    /\ UNCHANGED runVars /\ UNCHANGED appVars /\ UNCHANGED <<pb, loc>>

SetOut ==
    /\ \E t \in CurrentTimes(proj) : proj' = SyncTimeline(onSetOut(proj, t))
    /\ UNCHANGED runVars /\ UNCHANGED appVars /\ UNCHANGED <<pb, loc>>

\* A click on the track of the timeline.
TrackClick ==
    /\ proj.dragging = "none"
    /\ \E clickPct \in TrackPcts :
          proj' = SyncTimeline(handleTrackClick(proj, clickPct))
    /\ UNCHANGED runVars /\ UNCHANGED appVars /\ UNCHANGED <<pb, loc>>

\* handleMouseDown on a handle, mouse moves while it is held, handleMouseUp.
MouseDown ==
    /\ proj.dragging = "none"
    /\ \E handle \in {"start", "end"} : proj' = [proj EXCEPT !.dragging = handle]
    /\ UNCHANGED runVars /\ UNCHANGED appVars /\ UNCHANGED <<pb, loc>>

MouseMove ==
    /\ proj.dragging \in {"start", "end"}
    /\ \E clickPct \in TrackPcts :
          proj' = SyncTimeline(handleMouseMove(proj, clickPct))
    /\ UNCHANGED runVars /\ UNCHANGED appVars /\ UNCHANGED <<pb, loc>>

MouseUp ==
    /\ proj.dragging \in {"start", "end"}
    /\ proj' = [proj EXCEPT !.dragging = "none"]
    /\ UNCHANGED runVars /\ UNCHANGED appVars /\ UNCHANGED <<pb, loc>>

(***************************************************************************)
(* Metadata extraction: extractVideoMeta and safeEvalFrac of               *)
(* services/ffprobe.ts                                                     *)
(***************************************************************************)

\* JavaScript numbers as far as the extraction meets them: NaN, the value of
\* undefined under isFinite, and the finite numbers, a sign with an exact
\* fraction.  -0 and 0 are one value (they are equal under ===).
NaN == [kind |-> "NaN", neg |-> FALSE, val |-> Zero]
Infinity(neg) == [kind |-> "Infinity", neg |-> neg, val |-> Zero]
Finite(neg, n, d) == [kind |-> "finite", neg |-> (neg /\ n # 0), val |-> Ratio(n, d)]

\* String.prototype.trim on the model's whitespace.
RECURSIVE TrimStart(_)
TrimStart(s) == IF s # <<>> /\ IsSpace(Head(s)) THEN TrimStart(Tail(s)) ELSE s
RECURSIVE TrimEnd(_)
TrimEnd(s) ==
    IF s # <<>> /\ IsSpace(s[Len(s)]) THEN TrimEnd(SubSeq(s, 1, Len(s) - 1)) ELSE s

\* The value of the unsigned decimal literal that is the first len characters
\* of body (digits, optionally "." and digits), or NaN when they are none.
DecimalLiteral(body, len, neg) ==
    LET n == DigitRun(body, 1)
        dot == n + 1 <= len /\ body[n + 1] = "."
        f == IF dot THEN DigitRun(body, n + 2) ELSE 0
        used == n + (IF dot THEN 1 + f ELSE 0)
    IN IF n + f = 0 \/ used # len THEN NaN
       ELSE Finite(neg,
                   DecVal(SubSeq(body, 1, n) \o SubSeq(body, n + 2, n + 1 + f)),
                   Pow10(f))

\* Number(string): whitespace is trimmed, the empty string is 0, a signed
\* decimal literal or Infinity is its value, anything else is NaN.  (The
\* texts of the model hold no exponent and no 0x, 0o or 0b prefix.)
Number(s) ==
    LET t == TrimEnd(TrimStart(s))
        signed == t # <<>> /\ t[1] \in {"+", "-"}
        neg == signed /\ t[1] = "-"
        body == IF signed THEN Tail(t) ELSE t
    IN IF t = <<>> THEN Finite(FALSE, 0, 1)
       ELSE IF body = <<"I", "n", "f", "i", "n", "i", "t", "y">> THEN Infinity(neg)
       ELSE DecimalLiteral(body, Len(body), neg)

\* parseFloat(string): leading whitespace is skipped and the longest prefix
\* that is a signed decimal literal is converted; NaN when there is none.
parseFloat(s) ==
    LET t == TrimStart(s)
        signed == t # <<>> /\ t[1] \in {"+", "-"}
        neg == signed /\ t[1] = "-"
        body == IF signed THEN Tail(t) ELSE t
        n == DigitRun(body, 1)
        dot == n + 1 <= Len(body) /\ body[n + 1] = "."
        f == IF dot THEN DigitRun(body, n + 2) ELSE 0
        len == IF dot /\ n + f > 0 THEN n + 1 + f ELSE n
    IN IF LitAt(body, 1, <<"I", "n", "f", "i", "n", "i", "t", "y">>) THEN Infinity(neg)
       ELSE DecimalLiteral(body, len, neg)

isFinite(x) == x.kind = "finite"

\* a / b for finite a and b with b # 0.
Quotient(a, b) ==
    Finite(a.neg # b.neg, a.val[1] * b.val[2], a.val[2] * b.val[1])

\* safeEvalFrac: null is Undefined.  The destructuring leaves b undefined when
\* the string has no "/", and isFinite(undefined) is false.
safeEvalFrac(frac) ==
    LET parts == SplitOn(frac, "/")
        a == Number(parts[1])
        b == IF Len(parts) >= 2 THEN Number(parts[2]) ELSE NaN
    IN IF ~isFinite(a) \/ ~isFinite(b) \/ b.val[1] = 0 THEN Undefined
       ELSE Some(Quotient(a, b))

\* probe.streams.find((s) => s.codec_type === 'video')
FirstVideo(streams) ==
    LET at == {i \in 1..Len(streams) : streams[i].codec_type = "video"}
    IN IF at = {} THEN Undefined ELSE Some(streams[Least(at)])

ZeroByZero == <<"0", "/", "0">>

\* v?.field && v.field !== '0/0'
UsableRate(v, field) ==
    /\ v # Undefined
    /\ TruthyChars(v[1][field])
    /\ v[1][field][1] # ZeroByZero

\* extractVideoMeta.  null and undefined are both Undefined.
extractVideoMeta(probe) ==
    LET v == FirstVideo(probe.streams)
    IN [fps |-> IF UsableRate(v, "avg_frame_rate")
                THEN safeEvalFrac(v[1].avg_frame_rate[1])
                ELSE IF UsableRate(v, "r_frame_rate")
                     THEN safeEvalFrac(v[1].r_frame_rate[1])
                     ELSE Undefined,
        durationSec |-> IF TruthyChars(probe.format.duration)
                        THEN Some(parseFloat(probe.format.duration[1]))
                        ELSE Undefined,
        timebase |-> IF v = Undefined THEN Undefined ELSE v[1].time_base,
        width |-> IF v = Undefined THEN Undefined ELSE v[1].width,
        height |-> IF v = Undefined THEN Undefined ELSE v[1].height,
        codec |-> IF v = Undefined THEN Undefined ELSE v[1].codec_name]

\* The components a frame-rate field is written with: its text and the number
\* it denotes, Undefined for a text that denotes none.
RateParts ==
    {[text |-> <<"0">>, num |-> Some(Finite(FALSE, 0, 1))],
     [text |-> <<"1">>, num |-> Some(Finite(FALSE, 1, 1))],
     [text |-> <<"2", "5">>, num |-> Some(Finite(FALSE, 25, 1))],
     [text |-> <<"1", "0", "0", "1">>, num |-> Some(Finite(FALSE, 1001, 1))],
     [text |-> <<"3", "0", "0", "0", "0">>, num |-> Some(Finite(FALSE, 30000, 1))],
     [text |-> <<"2", ".", "5">>, num |-> Some(Finite(FALSE, 25, 10))],
     [text |-> <<"-", "5">>, num |-> Some(Finite(TRUE, 5, 1))],
     [text |-> <<"N", "a", "N">>, num |-> Undefined],
     [text |-> <<"f", "p", "s">>, num |-> Undefined],
     [text |-> <<>>, num |-> Undefined]}

\* A frame-rate field: absent, one component without "/", or
\* numerator "/" denominator.
RateFields ==
    {[present |-> FALSE, parts |-> <<>>]}
    \cup {[present |-> TRUE, parts |-> <<a>>] : a \in RateParts}
    \cup {[present |-> TRUE, parts |-> <<a, b>>] : a, b \in RateParts}

\* The alternate fields the extraction is checked with.
AltRateFields ==
    {f \in RateFields :
        \/ ~f.present
        \/ /\ Len(f.parts) = 2
           /\ f.parts[1].text \in {<<"0">>, <<"2", "5">>, <<>>}
           /\ f.parts[2].text \in {<<"0">>, <<"1">>, <<"f", "p", "s">>}}

\* The text of a field.
RateText(f) ==
    IF ~f.present THEN Undefined
    ELSE IF Len(f.parts) = 1 THEN Some(f.parts[1].text)
    ELSE Some(f.parts[1].text \o <<"/">> \o f.parts[2].text)

VideoStream(avg, r) ==
    [codec_type |-> "video", codec_name |-> Some("h264"),
     width |-> Some(1920), height |-> Some(1080),
     time_base |-> Some("1/30000"),
     avg_frame_rate |-> RateText(avg), r_frame_rate |-> RateText(r)]

AudioStream ==
    [codec_type |-> "audio", codec_name |-> Some("aac"),
     width |-> Undefined, height |-> Undefined, time_base |-> Some("1/48000"),
     avg_frame_rate |-> Some(ZeroByZero), r_frame_rate |-> Some(ZeroByZero)]

\* The duration texts of the container.
DurationTexts ==
    {Undefined, Some(<<"1", "2", ".", "5", "0">>), Some(<<"N", "/", "A">>)}

\* The probe results the extraction is checked on: an audio stream before
\* the video stream or not, or no video stream at all.
ProbeResults ==
    {[probe |-> [streams |-> (IF audio THEN <<AudioStream>> ELSE <<>>)
                              \o (IF video THEN <<VideoStream(avg, r)>> ELSE <<>>),
                 format |-> [duration |-> d]],
      video |-> video, avg |-> avg, r |-> r] :
        audio \in BOOLEAN, video \in BOOLEAN, avg \in RateFields,
        r \in AltRateFields, d \in DurationTexts}

\* No probe.
NoProbe == [pc |-> "idle"]

\* extractVideoMeta is applied to the probe result.
ExtractMeta ==
    /\ pb.pc = "probed"
    /\ pb' = [pb EXCEPT !.pc = "extracted", !.meta = extractVideoMeta(pb.input.probe)]
    /\ UNCHANGED runVars /\ UNCHANGED appVars /\ UNCHANGED <<proj, loc>>

(***************************************************************************)
(* The probe: ffprobe of services/ffprobe.ts                               *)
(***************************************************************************)

\* Data events on the prober's stdout.
MaxProbeChunks == 2

\* JSON values: strings, numbers, the literals, arrays, and objects as the
\* sequence of their <<key, value>> members.
JString(cs) == [t |-> "string", v |-> cs]
JNumber(n) == [t |-> "number", v |-> Finite(n < 0, IF n < 0 THEN 0 - n ELSE n, 1)]
JLiteral(name) == [t |-> "literal", v |-> name]
JArray(elems) == [t |-> "array", v |-> elems]
JObject(members) == [t |-> "object", v |-> members]

ParseFail == [ok |-> FALSE, next |-> 0, val |-> <<>>]
Parsed(next, val) == [ok |-> TRUE, next |-> next, val |-> val]

\* The index of the first character of t at or after i that is no whitespace.
SkipSpace(t, i) == i + SpaceRun(t, i)

\* A JSON string that starts at i.  (The texts of the model hold no
\* backslash.)
ParseString(t, i) ==
    IF i > Len(t) \/ t[i] # "\"" THEN ParseFail
    ELSE LET close == {k \in (i + 1)..Len(t) : t[k] = "\""}
         IN IF close = {} THEN ParseFail
            ELSE Parsed(Least(close) + 1, JString(SubSeq(t, i + 1, Least(close) - 1)))

\* A JSON number that starts at i: -? digits (. digits)?
ParseNumber(t, i) ==
    LET neg == i <= Len(t) /\ t[i] = "-"
        s == IF neg THEN i + 1 ELSE i
        n == DigitRun(t, s)
        dot == s + n <= Len(t) /\ t[s + n] = "."
        f == IF dot THEN DigitRun(t, s + n + 1) ELSE 0
    IN IF n = 0 \/ (dot /\ f = 0) \/ (n > 1 /\ t[s] = "0") THEN ParseFail
       ELSE Parsed(s + n + (IF dot THEN 1 + f ELSE 0),
                   [t |-> "number",
                    v |-> Finite(neg,
                                 DecVal(SubSeq(t, s, s + n - 1)
                                        \o SubSeq(t, s + n + 1, s + n + f)),
                                 Pow10(f))])

ParseLiteral(t, i) ==
    IF LitAt(t, i, <<"t", "r", "u", "e">>) THEN Parsed(i + 4, JLiteral("true"))
    ELSE IF LitAt(t, i, <<"f", "a", "l", "s", "e">>) THEN Parsed(i + 5, JLiteral("false"))
    ELSE IF LitAt(t, i, <<"n", "u", "l", "l">>) THEN Parsed(i + 4, JLiteral("null"))
    ELSE ParseFail

RECURSIVE ParseValue(_, _)
RECURSIVE ParseMembers(_, _, _)
RECURSIVE ParseElements(_, _, _)

\* The members of an object after "{" or ",": key : value, then "," or "}".
ParseMembers(t, i, acc) ==
    LET key == ParseString(t, SkipSpace(t, i))
        colon == IF key.ok THEN SkipSpace(t, key.next) ELSE 0
        val == IF key.ok /\ colon <= Len(t) /\ t[colon] = ":"
               THEN ParseValue(t, colon + 1) ELSE ParseFail
        after == IF val.ok THEN SkipSpace(t, val.next) ELSE 0
        members == IF val.ok THEN Append(acc, <<key.val.v, val.val>>) ELSE acc
    IN IF ~val.ok \/ after > Len(t) THEN ParseFail
       ELSE IF t[after] = "," THEN ParseMembers(t, after + 1, members)
       ELSE IF t[after] = "}" THEN Parsed(after + 1, JObject(members))
       ELSE ParseFail

\* The elements of an array after "[" or ",": value, then "," or "]".
ParseElements(t, i, acc) ==
    LET val == ParseValue(t, i)
        after == IF val.ok THEN SkipSpace(t, val.next) ELSE 0
        elems == IF val.ok THEN Append(acc, val.val) ELSE acc
    IN IF ~val.ok \/ after > Len(t) THEN ParseFail
       ELSE IF t[after] = "," THEN ParseElements(t, after + 1, elems)
       ELSE IF t[after] = "]" THEN Parsed(after + 1, JArray(elems))
       ELSE ParseFail

\* A JSON value that starts at or after i.
ParseValue(t, i) ==
    LET j == SkipSpace(t, i)
    IN IF j > Len(t) THEN ParseFail
       ELSE IF t[j] = "{"
            THEN LET k == SkipSpace(t, j + 1)
                 IN IF k <= Len(t) /\ t[k] = "}" THEN Parsed(k + 1, JObject(<<>>))
                    ELSE ParseMembers(t, j + 1, <<>>)
       ELSE IF t[j] = "["
            THEN LET k == SkipSpace(t, j + 1)
                 IN IF k <= Len(t) /\ t[k] = "]" THEN Parsed(k + 1, JArray(<<>>))
                    ELSE ParseElements(t, j + 1, <<>>)
       ELSE IF t[j] = "\"" THEN ParseString(t, j)
       ELSE IF t[j] = "-" \/ IsDigit(t[j]) THEN ParseNumber(t, j)
       ELSE ParseLiteral(t, j)

\* JSON.parse(text): the value, or Undefined when it throws a SyntaxError.
JSONparse(text) ==
    LET r == ParseValue(text, 1)
    IN IF r.ok /\ SkipSpace(text, r.next) = Len(text) + 1 THEN Some(r.val)
       ELSE Undefined

\* The argument vector of ffprobe.
ProbeArgs(input) ==
    <<"-hide_banner", "-print_format", "json", "-show_streams", "-show_format", input>>

\* A promise resolved with a value.
ResolvedWith(value) ==
    [state |-> "resolved", error |-> "", code |-> 0, value |-> value]

\* ffprobe up to the return of the promise.  rest is what the child has yet
\* to write to its stdout; feed describes what it writes in all.
StartProbe(input, feed) ==
    [pc |-> "running", input |-> input, args |-> ProbeArgs(input),
     out |-> <<>>, err |-> "", promise |-> Pending,
     errored |-> FALSE, code |-> Undefined,
     feed |-> feed, rest |-> feed.text, nData |-> 0, settles |-> 0]

\* child.stdout.on('data', (d) => (out += d.toString()))
ProbeOnStdout(p, chunk) == [p EXCEPT !.out = @ \o chunk]

\* child.stderr.on('data', (d) => (err += d.toString()))
ProbeOnStderr(p, chunk) == [p EXCEPT !.err = @ \o chunk]

\* child.on('error', reject)
ProbeOnError(p, errno) ==
    [p EXCEPT !.promise = Settle(@, Rejected("spawn", errno))]

\* Faulty variant of ProbeOnClose: output that cannot be parsed resolves the
\* promise with the text read so far.
ProbeOnClose_ResolvesUnparsed(p, code) ==
    IF code = 0
    THEN LET v == JSONparse(p.out)
         IN [p EXCEPT !.promise =
                Settle(@, ResolvedWith(IF v # Undefined THEN v[1] ELSE JString(p.out)))]
    ELSE [p EXCEPT !.promise =
             Settle(@, Rejected("ffprobe failed (" \o IntStr(code) \o "): " \o p.err, code))]

\* child.on('close', ...)
ProbeOnClose(p, code) ==
    IF code = 0
    THEN LET v == JSONparse(p.out)
         IN [p EXCEPT !.promise =
                Settle(@, IF v # Undefined THEN ResolvedWith(v[1])
                          ELSE Rejected("SyntaxError", 0))]
    ELSE [p EXCEPT !.promise =
             Settle(@, Rejected("ffprobe failed (" \o IntStr(code) \o "): " \o p.err, code))]

\* The text of a JSON value as the prober prints it: a space after each
\* colon and after each comma.
RECURSIVE RenderJson(_)
RECURSIVE RenderList(_, _)
RenderList(items, object) ==
    IF items = <<>> THEN <<>>
    ELSE (IF object
          THEN <<"\"">> \o Head(items)[1] \o <<"\"", ":", " ">> \o RenderJson(Head(items)[2])
          ELSE RenderJson(Head(items)))
         \o (IF Len(items) > 1 THEN <<",", " ">> ELSE <<>>)
         \o RenderList(Tail(items), object)

RenderJson(j) ==
    CASE j.t = "string" -> <<"\"">> \o j.v \o <<"\"">>
      [] j.t = "number" -> (IF j.v.neg THEN <<"-">> ELSE <<>>) \o NatChars(j.v.val[1])
      [] j.t = "literal" -> (CASE j.v = "true" -> <<"t", "r", "u", "e">>
                               [] j.v = "false" -> <<"f", "a", "l", "s", "e">>
                               [] OTHER -> <<"n", "u", "l", "l">>)
      [] j.t = "array" -> <<"[">> \o RenderList(j.v, FALSE) \o <<"]">>
      [] OTHER -> <<"{">> \o RenderList(j.v, TRUE) \o <<"}">>

\* The document of a probed file: one video stream and the container format.
ProbeDoc ==
    JObject(<<
        <<<<"s", "t", "r", "e", "a", "m", "s">>,
          JArray(<<JObject(<<
              <<<<"c", "o", "d", "e", "c", "_", "t", "y", "p", "e">>,
                JString(<<"v", "i", "d", "e", "o">>)>>,
              <<<<"w", "i", "d", "t", "h">>, JNumber(1920)>> >>)>>)>>,
        <<<<"f", "o", "r", "m", "a", "t">>,
          JObject(<<
              <<<<"d", "u", "r", "a", "t", "i", "o", "n">>,
                JString(<<"2", ".", "5">>)>>,
              <<<<"t", "a", "g", "s">>, JLiteral("null")>> >>)>> >>)

ProbeDocText == RenderJson(ProbeDoc) \o <<"\n">>

\* What the prober can write to its stdout: the whole document, the document
\* cut short, the document followed by other text, text that is no document,
\* or nothing.
ProbeFeeds ==
    {[kind |-> "document", text |-> ProbeDocText]}
    \cup {[kind |-> "truncated", text |-> SubSeq(ProbeDocText, 1, n)] :
            n \in {1, Len(ProbeDocText) \div 2, Len(ProbeDocText) - 2}}
    \cup {[kind |-> "trailing", text |-> ProbeDocText \o <<"}">>],
          [kind |-> "other", text |-> <<"f", "f", "p", "r", "o", "b", "e">>],
          [kind |-> "empty", text |-> <<>>]}

\* Texts on the prober's stderr.
ProbeErrTexts == {"No such file or directory\n"}

\* ffprobe is called.
ProbeStart ==
    /\ pb.pc = "idle"
    /\ \E feed \in ProbeFeeds : pb' = StartProbe("in.mp4", feed)
    /\ UNCHANGED runVars /\ UNCHANGED appVars /\ UNCHANGED <<proj, loc>>

\* A data event on the child's stdout with the next characters of its
\* output; the last event the bound allows carries all that is left.
ProbeStdout ==
    /\ pb.pc = "running" /\ ~pb.errored
    /\ pb.rest # <<>> /\ pb.nData < MaxProbeChunks
    /\ \E n \in (IF pb.nData + 1 = MaxProbeChunks THEN {Len(pb.rest)}
                 ELSE 1..Len(pb.rest)) :
          pb' = [ProbeOnStdout(pb, SubSeq(pb.rest, 1, n)) EXCEPT
                    !.rest = SubSeq(pb.rest, n + 1, Len(pb.rest)),
                    !.nData = @ + 1]
    /\ UNCHANGED runVars /\ UNCHANGED appVars /\ UNCHANGED <<proj, loc>>

\* A data event on the child's stderr.
ProbeStderr ==
    /\ pb.pc = "running" /\ ~pb.errored /\ pb.err = ""
    /\ \E chunk \in ProbeErrTexts : pb' = ProbeOnStderr(pb, chunk)
    /\ UNCHANGED runVars /\ UNCHANGED appVars /\ UNCHANGED <<proj, loc>>

\* The child could not be spawned: 'error' is emitted, no data ever arrives.
ProbeSpawnError ==
    /\ pb.pc = "running" /\ ~pb.errored /\ pb.nData = 0 /\ pb.err = ""
    /\ \E errno \in SpawnErrnos :
          pb' = [ProbeOnError(pb, errno) EXCEPT
                    !.errored = TRUE, !.code = Some(errno), !.settles = @ + 1]
    /\ UNCHANGED runVars /\ UNCHANGED appVars /\ UNCHANGED <<proj, loc>>

\* 'close', after the child's output has been read: with the exit code of a
\* child that ran, or, after a failed spawn, with the errno of the failure.
ProbeClose ==
    /\ pb.pc = "running"
    /\ pb.errored \/ pb.rest = <<>>
    /\ \E code \in (IF pb.errored THEN {pb.code[1]} ELSE {0, 1}) :
          pb' = [ProbeOnClose(pb, code) EXCEPT
                    !.pc = "closed", !.code = Some(code), !.settles = @ + 1]
    /\ UNCHANGED runVars /\ UNCHANGED appVars /\ UNCHANGED <<proj, loc>>

(***************************************************************************)
(* The binary locators of services/paths.ts                                *)
(***************************************************************************)

\* process.cwd() and the values of process.resourcesPath: undefined outside
\* a packaged application.
Cwd == "/proj"
ResourcesPaths == {Undefined, Some("/app/resources")}

\* path.resolve(base, rel) for an absolute base or the base '.'.
PathResolve(base, rel) == (IF base = "." THEN Cwd ELSE base) \o "/" \o rel

\* process.resourcesPath ?? '.'
ResourcesDir(resourcesPath) ==
    IF resourcesPath = Undefined THEN "." ELSE resourcesPath[1]

\* The candidate lists, in the order the locators try them.
FfmpegCandidates(resourcesPath) ==
    <<PathResolve(ResourcesDir(resourcesPath), "ffmpeg.exe"),
      PathResolve(Cwd, "bin/ffmpeg.exe"),
      PathResolve(ResourcesDir(resourcesPath), "ffmpeg"),
      PathResolve(Cwd, "bin/ffmpeg"),
      "ffmpeg">>

FfprobeCandidates(resourcesPath) ==
    <<PathResolve(ResourcesDir(resourcesPath), "ffprobe.exe"),
      PathResolve(Cwd, "bin/ffprobe.exe"),
      PathResolve(ResourcesDir(resourcesPath), "ffprobe"),
      PathResolve(Cwd, "bin/ffprobe"),
      "ffprobe">>

YtDlpCandidates(resourcesPath) ==
    <<PathResolve(ResourcesDir(resourcesPath), "yt-dlp.exe"),
      PathResolve(Cwd, "bin/yt-dlp.exe"),
      "yt-dlp.exe",
      PathResolve(ResourcesDir(resourcesPath), "yt-dlp"),
      PathResolve(Cwd, "bin/yt-dlp"),
      "yt-dlp">>

\* The loop of a locator: the first candidate that is a bare command or an
\* existing file; the fallback when the loop ends.
FirstUsable(candidates, bare, exists, fallback) ==
    LET usable == {i \in 1..Len(candidates) :
                      candidates[i] \in bare \/ candidates[i] \in exists}
    IN IF usable = {} THEN fallback ELSE candidates[Least(usable)]

getFfmpegPath(env) ==
    FirstUsable(FfmpegCandidates(env.resourcesPath), {"ffmpeg"}, env.exists, "ffmpeg")

getFfprobePath(env) ==
    FirstUsable(FfprobeCandidates(env.resourcesPath), {"ffprobe"}, env.exists, "ffprobe")

getYtDlpPath(env) ==
    FirstUsable(YtDlpCandidates(env.resourcesPath), {"yt-dlp", "yt-dlp.exe"},
                env.exists, "yt-dlp")

Tools == {"ffmpeg", "ffprobe", "yt-dlp"}

\* The places a binary of a tool can be installed at: the resources folder of
\* the packaged application, the working directory and its bin folder, each
\* with and without .exe.
InstallPaths(tool) ==
    {dir \o "/" \o tool \o ext :
        dir \in {"/app/resources", Cwd, Cwd \o "/bin"}, ext \in {"", ".exe"}}

\* The environments a locator is checked in.
Environments(tool) ==
    {[resourcesPath |-> r, exists |-> e] :
        r \in ResourcesPaths, e \in SUBSET InstallPaths(tool)}

\* No lookup.
NoLookup == [tool |-> "", env |-> <<>>, result |-> Undefined]

GetFfmpegPath ==
    /\ loc.tool = "ffmpeg" /\ loc.result = Undefined
    /\ loc' = [loc EXCEPT !.result = Some(getFfmpegPath(loc.env))]
    /\ UNCHANGED runVars /\ UNCHANGED appVars /\ UNCHANGED <<proj, pb>>

GetFfprobePath ==
    /\ loc.tool = "ffprobe" /\ loc.result = Undefined
    /\ loc' = [loc EXCEPT !.result = Some(getFfprobePath(loc.env))]
    /\ UNCHANGED runVars /\ UNCHANGED appVars /\ UNCHANGED <<proj, pb>>

GetYtDlpPath ==
    /\ loc.tool = "yt-dlp" /\ loc.result = Undefined
    /\ loc' = [loc EXCEPT !.result = Some(getYtDlpPath(loc.env))]
    /\ UNCHANGED runVars /\ UNCHANGED appVars /\ UNCHANGED <<proj, pb>>

(***************************************************************************)
(* Specifications                                                          *)
(***************************************************************************)


\* Before any run: no request built, no export run started, download idle.
NoRequest == <<>>

\* The application before any click: no temporary file, no handler invoked,
\* no message under way.
InitMain ==
    /\ files = <<>>
    /\ main = <<>>
    /\ chan = <<>>

\* Spec: one export run.
Init ==
    /\ req = NoRequest
    /\ args = <<>>
    /\ ex = <<>>
    /\ dl = IdleDownload
    /\ InitMain
    /\ ui = Mounted(0, 0)
    /\ proj = NoProject
    /\ pb = NoProbe
    /\ loc = NoLookup

Next ==
    \/ ExportStart(1)
    \/ ExportStderr(1)
    \/ ExportSpawnError(1)
    \/ ExportClose(1)

Spec == Init /\ [][Next]_vars

\* SpecArgs: the Command Builder applied to every request.
InitArgs ==
    /\ req \in Requests
    /\ args = <<>>
    /\ ex = <<>>
    /\ dl = IdleDownload
    /\ InitMain
    /\ ui = Mounted(0, 0)
    /\ proj = NoProject
    /\ pb = NoProbe
    /\ loc = NoLookup

Build ==
    /\ args = <<>>
    /\ args' = buildFfmpegArgs(req)
    /\ UNCHANGED <<req, ex, dl>> /\ UNCHANGED appVars /\ UNCHANGED auxVars

NextArgs == Build

SpecArgs == InitArgs /\ [][NextArgs]_vars

\* SpecDownload: one download run.
NextDownload ==
    \/ DownloadStart
    \/ DownloadStdout
    \/ DownloadStderr
    \/ DownloadSpawnError
    \/ DownloadClose

SpecDownload == Init /\ [][NextDownload]_vars

\* SpecApp: a session of the application, up to MaxTasks clicks.
InitApp ==
    /\ req = NoRequest
    /\ args = <<>>
    /\ ex = <<>>
    /\ dl = IdleDownload
    /\ InitMain
    /\ ui = Mounted(MaxTasks, 0)
    /\ proj = NoProject
    /\ pb = NoProbe
    /\ loc = NoLookup

NextApp ==
    \/ UiExportClick
    \/ UiDownloadClick
    \/ RendererReceive
    \/ \E t \in 1..MaxTasks :
          \/ UiExportSaveResult(t)
          \/ UiDownloadSaveResult(t)
          \/ UiDownloadProbed(t)
          \/ MainExportBegin(t)
          \/ MainExportStderr(t)
          \/ MainExportSpawnError(t)
          \/ MainExportClose(t)
          \/ MainExportFinally(t)
          \/ MainDownloadBegin(t)
          \/ MainDownloadStdout(t)
          \/ MainDownloadSpawnError(t)
          \/ MainDownloadClose(t)
          \/ MainDownloadReply(t)

SpecApp == InitApp /\ [][NextApp]_vars

\* SpecAppLive: SpecApp in which the main process and the delivery of its
\* messages to the renderer keep running: an invoked handler starts, a child
\* process that runs eventually closes, a settled promise is answered and a
\* message in the channel is delivered.  Clicks and dialog results remain up
\* to the user, and a child process need not write anything.
MainStep(t) ==
    \/ MainExportSpawnError(t)
    \/ MainExportClose(t)
    \/ MainExportFinally(t)
    \/ MainDownloadBegin(t)
    \/ MainDownloadSpawnError(t)
    \/ MainDownloadClose(t)
    \/ MainDownloadReply(t)

\* The enabling condition of MainExportBegin(t).
ExportInvoked(t) ==
    /\ t \in Tasks /\ t \notin Handlers
    /\ ui.tasks[t].kind = "export" /\ ui.tasks[t].pc = "invoked"

\* Weak fairness of MainExportBegin(t), with its enabling condition written
\* out.
ExportBeginFair(t) ==
    ([]<>~ExportInvoked(t)) \/ ([]<><<MainExportBegin(t)>>_vars)

SpecAppLive ==
    /\ SpecApp
    /\ WF_vars(RendererReceive)
    /\ \A t \in 1..MaxTasks : WF_vars(MainStep(t))
    /\ \A t \in 1..MaxTasks : ExportBeginFair(t)

\* SpecSubs: one export or download with additional progress subscribers
\* that subscribe and unsubscribe at any time.
InitSubs ==
    /\ req = NoRequest
    /\ args = <<>>
    /\ ex = <<>>
    /\ dl = IdleDownload
    /\ InitMain
    /\ ui = Mounted(1, MaxSubs)
    /\ proj = NoProject
    /\ pb = NoProbe
    /\ loc = NoLookup

NextSubs ==
    \/ NextApp
    \/ \E kind \in {"export", "download"} : Subscribe(kind)
    \/ \E id \in 1..MaxSubs : Unsubscribe(id)

SpecSubs == InitSubs /\ [][NextSubs]_vars

\* SpecTrim: the project store under file openings, downloads, probes and the
\* trim controls.
InitTrim ==
    /\ req = NoRequest
    /\ args = <<>>
    /\ ex = <<>>
    /\ dl = IdleDownload
    /\ InitMain
    /\ ui = Mounted(0, 0)
    /\ proj = defaultProject
    /\ pb = NoProbe
    /\ loc = NoLookup

NextTrim ==
    \/ OpenFile
    \/ Downloaded
    \/ Probed
    \/ SetIn
    \/ SetOut
    \/ TrackClick
    \/ MouseDown
    \/ MouseMove
    \/ MouseUp

SpecTrim == InitTrim /\ [][NextTrim]_vars

\* SpecPair: export runs that are active at the same time.
NextPair ==
    \E r \in PairRuns :
        \/ PairStart(r)
        \/ PairStderr(r)
        \/ PairClose(r)

SpecPair == Init /\ [][NextPair]_vars

\* SpecMeta: extractVideoMeta applied to every probe result.
InitMeta ==
    /\ req = NoRequest
    /\ args = <<>>
    /\ ex = <<>>
    /\ dl = IdleDownload
    /\ InitMain
    /\ ui = Mounted(0, 0)
    /\ proj = NoProject
    /\ \E i \in ProbeResults : pb = [pc |-> "probed", input |-> i, meta |-> <<>>]
    /\ loc = NoLookup

NextMeta == ExtractMeta

SpecMeta == InitMeta /\ [][NextMeta]_vars

\* SpecProbe: one probe.
NextProbe ==
    \/ ProbeStart
    \/ ProbeStdout
    \/ ProbeStderr
    \/ ProbeSpawnError
    \/ ProbeClose

SpecProbe == Init /\ [][NextProbe]_vars

\* SpecSettle: an export run, a download run and a probe side by side, with
\* the events that settle their promises.
NextSettle ==
    \/ PairStart(1)
    \/ ExportSpawnError(1)
    \/ ExportClose(1)
    \/ DownloadStart
    \/ DownloadSpawnError
    \/ DownloadClose
    \/ ProbeStart
    \/ ProbeStdout
    \/ ProbeSpawnError
    \/ ProbeClose

SpecSettle == Init /\ [][NextSettle]_vars

\* SpecPaths: each locator in every environment.
InitPaths ==
    /\ req = NoRequest
    /\ args = <<>>
    /\ ex = <<>>
    /\ dl = IdleDownload
    /\ InitMain
    /\ ui = Mounted(0, 0)
    /\ proj = NoProject
    /\ pb = NoProbe
    /\ \E tool \in Tools : \E env \in Environments(tool) :
          loc = [tool |-> tool, env |-> env, result |-> Undefined]

NextPaths ==
    \/ GetFfmpegPath
    \/ GetFfprobePath
    \/ GetYtDlpPath

SpecPaths == InitPaths /\ [][NextPaths]_vars

(***************************************************************************)
(* Properties of the Command Builder (SpecArgs)                            *)
(***************************************************************************)

\* The indices of args that hold the flag f.
FlagAt(a, f) == {i \in 1..Len(a) : a[i] = f}
HasFlag(a, f) == FlagAt(a, f) # {}
\* The first index of the flag f (f occurs in a).
Idx(a, f) == CHOOSE i \in FlagAt(a, f) : \A j \in FlagAt(a, f) : i <= j
\* The request carries a raster path (a path is a non-empty string).
Raster == req.wmImagePath # Undefined /\ req.wmImagePath # Some("")
Built == args # <<>>

\* C2: the built arguments hold the overlay graph (-filter_complex) exactly
\* when a raster path is supplied and the drawtext filter (-vf) exactly when
\* none is; never both, never neither, whatever the watermark text.
C2_OneWatermarkStrategy ==
    Built =>
        /\ HasFlag(args, "-filter_complex") <=> Raster
        /\ HasFlag(args, "-vf") <=> ~Raster
        /\ ~(HasFlag(args, "-filter_complex") /\ HasFlag(args, "-vf"))
        /\ HasFlag(args, "-filter_complex") \/ HasFlag(args, "-vf")
        /\ Cardinality(FlagAt(args, "-filter_complex") \cup FlagAt(args, "-vf")) = 1
        /\ Raster => args[Idx(args, "-filter_complex") + 1] = OverlayFilter(req.project)
        /\ ~Raster => args[Idx(args, "-vf") + 1]
                        = buildDrawTextFilter(req.project, req.fontFile)

C2_Witness ==
    /\ Built /\ Raster /\ req.project.watermark.text # <<>>
    /\ HasFlag(args, "-filter_complex") /\ ~HasFlag(args, "-vf")

C4_OrderingChain ==
    Built =>
        LET n == Len(args)
            wmFlag == IF HasFlag(args, "-vf") THEN "-vf" ELSE "-filter_complex"
            cv == Idx(args, "-c:v")
        IN /\ SubSeq(args, 1, 2) = <<"-hide_banner", "-y">>
           /\ \A i \in FlagAt(args, "-i") : i < Idx(args, "-ss") /\ i < Idx(args, "-t")
           /\ Idx(args, "-ss") < Idx(args, wmFlag)
           /\ Idx(args, wmFlag) < cv
           /\ HasFlag(args, "-pix_fmt") /\ cv < Idx(args, "-pix_fmt")
           /\ args[Idx(args, "-pix_fmt") + 1] = "yuv420p"
           /\ HasFlag(args, "-movflags") /\ cv < Idx(args, "-movflags")
           /\ args[Idx(args, "-movflags") + 1] = "+faststart"
           /\ HasFlag(args, "-shortest") /\ cv < Idx(args, "-shortest")
           /\ Idx(args, "-shortest") < n - 4
           /\ SubSeq(args, n - 4, n) = <<"-c:a", "aac", "-b:a", "192k", req.output>>

C4_Witness ==
    /\ Built /\ Raster /\ req.project.export.useHardwareAccel
    /\ args[Len(args)] = "out.mp4" /\ HasFlag(args, "-shortest")

\* The decimal strings of the non-negative durations of the model.
NonNegativeStrs == {NumStr(v) : v \in 0..(8 * Scale)}

\* C5: -t occurs exactly once; its value is endSec - startSec when
\* endSec > startSec and 0 otherwise, never a negative number
\* (trim [2.0, 7.5] gives -t 5.5).
C5_TrimDuration ==
    Built =>
        /\ Cardinality(FlagAt(args, "-t")) = 1
        /\ LET t == args[Idx(args, "-t") + 1]
           IN /\ req.endSec > req.startSec => t = NumStr(req.endSec - req.startSec)
              /\ req.endSec <= req.startSec => t = "0"
              /\ t \in NonNegativeStrs
              /\ (req.startSec = 2 * Scale /\ req.endSec = 7 * Scale + 50) => t = "5.5"

C5_Witness ==
    /\ Built /\ req.endSec < req.startSec
    /\ args[Idx(args, "-t") + 1] = "0"

(***************************************************************************)
(* Properties of the Export Runner (Spec)                                  *)
(***************************************************************************)

\* The ratio a chunk's first timestamp stands for, uncapped.
SeenRatio(run) == Ratio(run.seen[1], TargetDur(run.opts))
RatioLess(p, q) == ~RatioLeq(q, p)
\* The last data event fired the callback.
FiredLast(run) == run.nData > 0 /\ Len(run.calls) = run.before + 1

\* C1: within one export run the ratios passed to the progress callback are
\* non-decreasing, whatever timestamps the chunks carry.
C1_ProgressNonDecreasing ==
    \A r \in Started :
        \A i, j \in 1..Len(ex[r].calls) :
            i < j => RatioLeq(ex[r].calls[i], ex[r].calls[j])

\* A chunk whose timestamp lies before an already reported ratio has fired
\* the callback.
C1_Witness ==
    \E r \in Started :
        /\ FiredLast(ex[r]) /\ ex[r].before >= 1
        /\ ex[r].seen # Undefined
        /\ RatioLess(SeenRatio(ex[r]), ex[r].calls[ex[r].before])

\* C6: a run whose child closes with code 0 resolves; one whose child closes
\* with another code rejects with the error carrying that code; one whose
\* child could not be spawned rejects with the spawn error, and the close that
\* follows does not change that.  Until one of these events the promise is
\* pending.
C6_ExportOutcome ==
    \A r \in Started :
        LET run == ex[r]
        IN /\ (run.pc = "closed" /\ ~run.errored /\ run.code = Some(0))
                => run.promise = Resolved
           /\ (run.pc = "closed" /\ ~run.errored /\ run.code # Some(0))
                => run.promise = Rejected("ffmpeg failed with code", run.code[1])
           /\ run.errored
                => (run.promise.state = "rejected" /\ run.promise.error = "spawn")
           /\ (run.pc = "running" /\ ~run.errored)
                => run.promise = Pending

C6_Witness ==
    \E r \in Started :
        /\ ex[r].pc = "closed" /\ ~ex[r].errored /\ ex[r].code = Some(255)
        /\ ex[r].promise.state = "rejected" /\ ex[r].promise.code = 255

\* C7: every ratio passed to the progress callback lies in [0, 1].
C7_RatioInUnitInterval ==
    \A r \in Started :
        \A i \in 1..Len(ex[r].calls) :
            RatioLeq(Zero, ex[r].calls[i]) /\ RatioLeq(ex[r].calls[i], One)

\* A chunk whose elapsed time exceeds the trim duration has fired the callback.
C7_Witness ==
    \E r \in Started :
        /\ FiredLast(ex[r]) /\ ex[r].seen # Undefined
        /\ ex[r].seen[1] > TargetDur(ex[r].opts)

\* C8: a chunk fires no callback when the target duration is 0 or when it
\* carries no timestamp; with a target duration of 0 no callback fires in the
\* whole run.
C8_NoCallbackWithoutProgress ==
    \A r \in Started :
        LET run == ex[r]
        IN /\ (run.nData > 0 /\ (TargetDur(run.opts) = 0 \/ run.seen = Undefined))
                => Len(run.calls) = run.before
           /\ TargetDur(run.opts) = 0 => run.calls = <<>>

\* After a chunk that fired the callback, a chunk without a timestamp has
\* been handled in a run of positive duration.
C8_Witness ==
    \E r \in Started :
        /\ ex[r].nData >= 2 /\ ex[r].seen = Undefined
        /\ ex[r].before >= 1 /\ Len(ex[r].calls) = ex[r].before

\* A run with a trim window of length 0 has handled a chunk that carries a
\* timestamp, and has closed.
C8_ZeroDurationReached ==
    \E r \in Started :
        /\ ex[r].pc = "closed" /\ TargetDur(ex[r].opts) = 0
        /\ ex[r].nData >= 1 /\ ex[r].seen # Undefined

\* The ratio reported before the last chunk: the one of the last callback,
\* or 0 when none had fired.
ReportedBefore(run) == IF run.before = 0 THEN Zero ELSE run.calls[run.before]

\* C28: in a run of positive target duration a chunk fires at most one
\* callback, and a chunk with timestamps fires it with the ratio
\* max(ratio reported before, min(1, first timestamp / target duration)),
\* whatever other timestamps follow the first in the chunk.
C28_FirstTimestampOnly ==
    \A r \in Started :
        LET run == ex[r]
        IN (run.nData > 0 /\ TargetDur(run.opts) > 0) =>
              /\ Len(run.calls) <= run.before + 1
              /\ run.seen # Undefined =>
                    /\ Len(run.calls) = run.before + 1
                    /\ run.calls[Len(run.calls)] =
                           RatioMax(ReportedBefore(run), RatioMin(One, SeenRatio(run)))

\* A chunk with two timestamps, the second later than the first, has fired
\* the callback once, with the ratio of the first, which is below 1.
C28_Witness ==
    \E r \in Started :
        LET run == ex[r]
        IN /\ TargetDur(run.opts) > 0 /\ FiredLast(run)
           /\ run.seen # Undefined /\ run.later
           /\ run.calls[Len(run.calls)] = SeenRatio(run)
           /\ RatioLess(run.calls[Len(run.calls)], One)

(***************************************************************************)
(* Properties of the Download Runner (SpecDownload)                        *)
(***************************************************************************)

Completed(d) == SelectSeq(d.events, LAMBDA e : e.phase = "completed")
\* The events emitted for the last stdout chunk.
EmittedLast(d) ==
    SelectSeq(SubSeq(d.events, d.before + 1, Len(d.events)),
              LAMBDA e : e.phase # "completed")

\* C9: completed is emitted exactly when the downloader closes with code 0,
\* once, as the last event, and the promise is then resolved; a downloader
\* that ran and closes with another code emits no completed event and the
\* promise is rejected with the error carrying that code.
C9_CompletedOnExitZero ==
    /\ Len(Completed(dl)) <= 1
    /\ Len(Completed(dl)) = 1 <=> (dl.pc = "closed" /\ dl.code = Some(0))
    /\ Len(Completed(dl)) = 1 =>
            /\ dl.events[Len(dl.events)].phase = "completed"
            /\ dl.promise = Resolved
    /\ (dl.pc = "closed" /\ ~dl.errored /\ dl.code # Some(0)) =>
            dl.promise = Rejected("yt-dlp failed with code", dl.code[1])
    /\ (dl.pc = "closed" /\ dl.errored) => dl.promise.state = "rejected"

\* A run that emitted progress events has closed with code 0.
C9_Witness ==
    /\ dl.pc = "closed" /\ dl.code = Some(0)
    /\ Len(dl.events) >= 3
    /\ dl.events[Len(dl.events)].phase = "completed"
    /\ dl.events[1].phase = "downloading"
    /\ dl.promise = Resolved

\* The progress lines of a chunk, and the event the line's own percentage
\* (0 to 100), speed and ETA call for.
ProgressOf(c) == SelectSeq(c, LAMBDA l : l.kind = "progress")
ExpectedEvent(l) ==
    Event("downloading", Some(Ratio(l.pctNum, l.pctDen * 100)), l.speed, l.eta)
InRange(l) == l.pctNum <= 100 * l.pctDen

\* C10: every stdout line with a percentage (0 to 100) yields one downloading
\* event with ratio = percentage / 100 and the speed and ETA of that line,
\* however the lines are grouped into chunks: the downloading events of a
\* chunk are those of its progress lines, in order.
C10_EveryProgressLineReported ==
    (dl.nData > 0 /\ \A i \in 1..Len(dl.last) : InRange(dl.last[i])) =>
        LET lines == ProgressOf(dl.last)
            got == SelectSeq(EmittedLast(dl), LAMBDA e : e.phase = "downloading")
        IN got = [i \in 1..Len(lines) |-> ExpectedEvent(lines[i])]

\* C11: a stdout line with the merge marker yields a merging event, a line
\* with the audio-extraction or fix-up marker yields a postprocessing event,
\* and merging and postprocessing events carry no ratio, speed or ETA.
C11_PhaseMarkersReported ==
    /\ dl.nData > 0 =>
          LET got == EmittedLast(dl)
          IN /\ (\E i \in 1..Len(dl.last) : dl.last[i].kind = "merger")
                   => \E k \in 1..Len(got) : got[k].phase = "merging"
             /\ (\E i \in 1..Len(dl.last) : dl.last[i].kind \in {"fixup", "extract"})
                   => \E k \in 1..Len(got) : got[k].phase = "postprocessing"
    /\ \A k \in 1..Len(dl.events) :
          dl.events[k].phase \in {"merging", "postprocessing"} =>
              /\ dl.events[k].ratio = Undefined
              /\ dl.events[k].speed = Undefined
              /\ dl.events[k].eta = Undefined

\* The kinds of the lines of a chunk.
KindsOf(c) == {c[i].kind : i \in 1..Len(c)}

\* What a stdout chunk emits: with a percentage line one downloading event
\* and nothing else; without one, with the merge marker and a fix-up or
\* audio-extraction marker, merging and then postprocessing; with no marker,
\* nothing.
ChunkRule(c, new) ==
    LET kinds == KindsOf(c)
    IN IF "progress" \in kinds
       THEN Len(new) = 1 /\ new[1].phase = "downloading"
       ELSE /\ ("merger" \in kinds /\ kinds \cap {"fixup", "extract"} # {}) =>
                    new = <<PhaseEvent("merging"), PhaseEvent("postprocessing")>>
            /\ kinds \subseteq {"dest"} => new = <<>>

\* C29: a stdout chunk with a percentage marker emits exactly one
\* downloading event and no merging or postprocessing event, whatever other
\* markers it holds; otherwise a chunk with a merge marker and a fix-up or
\* extraction marker emits merging and then postprocessing, and a chunk
\* without marker emits nothing.  Data on stderr emits no event.
C29_ChunkEvents ==
    [][/\ dl'.nData = dl.nData + 1 =>
            ChunkRule(dl'.last, SubSeq(dl'.events, Len(dl.events) + 1, Len(dl'.events)))
       /\ dl'.nErr = dl.nErr + 1 => dl'.events = dl.events]_vars

\* A chunk with a percentage line and a merger line has emitted one
\* downloading event, and stderr data that quotes a percentage and the merge
\* marker has been read since.
C29_Witness ==
    /\ dl.nData = 1 /\ dl.nErr = 1
    /\ KindsOf(dl.last) = {"progress", "merger"}
    /\ Len(dl.events) = 1 /\ dl.events[1].phase = "downloading"

\* Percentage texts: one to four digits, with and without a fraction.
PctTexts ==
    LET d == {"0", "1", "9"}
        ints == UNION {[1..n -> d] : n \in 1..4}
    IN {i \o f : i \in ints, f \in {<<>>, <<".", "5">>, <<".", "9", "9">>}}

\* The ratio of every text the marker pattern accepts lies in [0, 1].
AcceptedInUnitInterval ==
    \A g \in PctTexts :
        PctMatchAt(DownloadTag \o <<" ">> \o g \o <<"%">>, 1) = Some(g) =>
            RatioLeq(Zero, PctRatio(g)) /\ RatioLeq(PctRatio(g), One)

\* C30: the ratio of every downloading event lies in [0, 1], as does the
\* ratio of every text the marker pattern accepts; it is
\* min(1, percentage / 100) of the line it was read from, whatever ratios were
\* reported before.
C30_DownloadRatio ==
    /\ AcceptedInUnitInterval
    /\ \A k \in 1..Len(dl.events) :
          dl.events[k].phase = "downloading" =>
              /\ dl.events[k].ratio # Undefined
              /\ RatioLeq(Zero, dl.events[k].ratio[1])
              /\ RatioLeq(dl.events[k].ratio[1], One)
    /\ (dl.nData > 0 /\ ProgressOf(dl.last) # <<>> /\ EmittedLast(dl) # <<>>) =>
          LET l == ProgressOf(dl.last)[1]
          IN EmittedLast(dl)[1].ratio =
                Some(RatioMin(One, Ratio(l.pctNum, l.pctDen * 100)))

\* A line with 150.0% has been reported with ratio 1, and a later line with a
\* lower percentage with a lower ratio.
C30_Witness ==
    /\ Len(dl.events) = 2 /\ dl.nData = 2
    /\ dl.events[1].phase = "downloading" /\ dl.events[2].phase = "downloading"
    /\ dl.events[1].speed = Some(<<"9", "K", "i", "B", "/", "s">>)
    /\ dl.events[1].ratio = Some(One)
    /\ ProgressOf(dl.last) # <<>> /\ ProgressOf(dl.last)[1].pctNum = 123
    /\ ~RatioLeq(dl.events[1].ratio[1], dl.events[2].ratio[1])

(***************************************************************************)
(* Properties of the watermark position, the encoder selection and the     *)
(* text escaping (SpecArgs)                                                *)
(***************************************************************************)

\* The value of a term of a position expression: a number, or a name that the
\* filter defines (env); Undefined for anything else.
TermVal(t, env) ==
    IF t # <<>> /\ \A i \in 1..Len(t) : IsDigit(t[i]) THEN Some(DecVal(t))
    ELSE IF Join(t) \in DOMAIN env THEN Some(env[Join(t)])
    ELSE Undefined

RECURSIVE SubtractAll(_, _, _)
SubtractAll(v, ts, env) ==
    IF ts = <<>> THEN Some(v)
    ELSE LET t == TermVal(Head(ts), env)
         IN IF t = Undefined THEN Undefined
            ELSE SubtractAll(v - t[1], Tail(ts), env)

\* The value ffmpeg computes for a position expression a-b-c: subtraction from
\* left to right.
EvalPos(e, env) ==
    LET ts == SplitOn(e, "-")
        first == TermVal(Head(ts), env)
    IN IF first = Undefined THEN Undefined
       ELSE SubtractAll(first[1], Tail(ts), env)

\* The names of the drawtext filter and of the overlay filter, for a frame
\* f = <<width, height>> and a mark (text or image) m = <<width, height>>.
DrawTextEnv(f, m) ==
    [w |-> f[1], h |-> f[2], tw |-> m[1], th |-> m[2],
     text_w |-> m[1], text_h |-> m[2]]
OverlayEnv(f, m) ==
    [main_w |-> f[1], main_h |-> f[2], overlay_w |-> m[1], overlay_h |-> m[2],
     W |-> f[1], H |-> f[2], w |-> m[1], h |-> m[2]]

Frames == {<<1920, 1080>>, <<640, 360>>}
Marks == {<<200, 50>>, <<97, 41>>}

\* The position the anchor and the offsets call for.
PosX(wm, f, m) ==
    IF wm.anchor \in {"topLeft", "bottomLeft"} THEN wm.offsetX
    ELSE f[1] - m[1] - wm.offsetX
PosY(wm, f, m) ==
    IF wm.anchor \in {"topLeft", "topRight"} THEN wm.offsetY
    ELSE f[2] - m[2] - wm.offsetY

\* The anchor on the other side, horizontally and vertically.
MirrorX(anchor) ==
    CASE anchor = "topLeft" -> "topRight" [] anchor = "topRight" -> "topLeft"
      [] anchor = "bottomLeft" -> "bottomRight" [] anchor = "bottomRight" -> "bottomLeft"
MirrorY(anchor) ==
    CASE anchor = "topLeft" -> "bottomLeft" [] anchor = "bottomLeft" -> "topLeft"
      [] anchor = "topRight" -> "bottomRight" [] anchor = "bottomRight" -> "topRight"

\* C12: for every anchor and non-negative offset the drawtext expressions
\* (frame and text size names) and the overlay expressions (main and overlay
\* size names) evaluate to the same position: X = offsetX for left anchors and
\* frameWidth - markWidth - offsetX for right anchors, Y = offsetY for top
\* anchors and frameHeight - markHeight - offsetY for bottom anchors; the
\* mirrored anchor with the same offset gives X + X' + markWidth = frameWidth
\* and Y + Y' + markHeight = frameHeight.
C12_MirroredPositions ==
    Built =>
        LET wm == req.project.watermark
            mx == [wm EXCEPT !.anchor = MirrorX(wm.anchor)]
            my == [wm EXCEPT !.anchor = MirrorY(wm.anchor)]
        IN /\ wm.offsetX >= 0 /\ wm.offsetY >= 0
           /\ \A f \in Frames, m \in Marks :
                LET te == DrawTextEnv(f, m)
                    oe == OverlayEnv(f, m)
                IN /\ EvalPos(DrawTextX(wm), te) = Some(PosX(wm, f, m))
                   /\ EvalPos(OverlayX(wm), oe) = Some(PosX(wm, f, m))
                   /\ EvalPos(DrawTextY(wm), te) = Some(PosY(wm, f, m))
                   /\ EvalPos(OverlayY(wm), oe) = Some(PosY(wm, f, m))
                   /\ EvalPos(DrawTextX(wm), te)[1] + EvalPos(DrawTextX(mx), te)[1] + m[1] = f[1]
                   /\ EvalPos(OverlayX(wm), oe)[1] + EvalPos(OverlayX(mx), oe)[1] + m[1] = f[1]
                   /\ EvalPos(DrawTextY(wm), te)[1] + EvalPos(DrawTextY(my), te)[1] + m[2] = f[2]
                   /\ EvalPos(OverlayY(wm), oe)[1] + EvalPos(OverlayY(my), oe)[1] + m[2] = f[2]
           /\ Raster => args[Idx(args, "-filter_complex") + 1]
                            = "[1:v]format=rgba,setsar=1[wm];[0:v][wm]overlay="
                              \o Join(OverlayX(wm)) \o ":" \o Join(OverlayY(wm))
                              \o ":shortest=1[v]"
           /\ ~Raster => args[Idx(args, "-vf") + 1]
                            = "drawtext=text='" \o Join(escapeFfmpeg(wm.text)) \o "'"
                              \o DrawTextStyle(req.project, req.fontFile)

\* A text request anchored bottom right with offsets 24: on a 1920x1080
\* frame a 200x50 text lands at (1696, 1006).
C12_Witness ==
    /\ Built /\ ~Raster
    /\ req.project.watermark.anchor = "bottomRight"
    /\ req.project.watermark.offsetX = 24 /\ req.project.watermark.offsetY = 24
    /\ EvalPos(DrawTextX(req.project.watermark), DrawTextEnv(<<1920, 1080>>, <<200, 50>>))
          = Some(1696)
    /\ EvalPos(DrawTextY(req.project.watermark), DrawTextEnv(<<1920, 1080>>, <<200, 50>>))
          = Some(1006)

\* C13: exactly one video encoder is selected and it takes the quality value
\* as it is: with hardware acceleration -c:v h264_nvenc -preset p5 -cq q and
\* neither libx264 nor -crf; otherwise -c:v libx264 -preset medium -crf q and
\* neither h264_nvenc nor -cq.  Quality 18 gives "18", quality 23 gives "23".
C13_EncoderSelection ==
    Built =>
        LET e == req.project.export
            q == IF e.quality.value = 18 THEN "18"
                 ELSE IF e.quality.value = 23 THEN "23"
                 ELSE IntStr(e.quality.value)
            cv == Idx(args, "-c:v")
        IN /\ Cardinality(FlagAt(args, "-c:v")) = 1
           /\ Cardinality(FlagAt(args, "-preset")) = 1
           /\ e.useHardwareAccel =>
                /\ SubSeq(args, cv, cv + 5)
                      = <<"-c:v", "h264_nvenc", "-preset", "p5", "-cq", q>>
                /\ ~HasFlag(args, "libx264") /\ ~HasFlag(args, "-crf")
           /\ ~e.useHardwareAccel =>
                /\ SubSeq(args, cv, cv + 5)
                      = <<"-c:v", "libx264", "-preset", "medium", "-crf", q>>
                /\ ~HasFlag(args, "h264_nvenc") /\ ~HasFlag(args, "-cq")

C13_Witness ==
    /\ Built /\ req.project.export.useHardwareAccel
    /\ req.project.export.quality.value = 23
    /\ HasFlag(args, "-cq") /\ args[Idx(args, "-cq") + 1] = "23"

RECURSIVE EscapedOnce(_)
\* The text with a backslash put before every backslash, colon and single
\* quote, in one pass.
EscapedOnce(text) ==
    IF text = <<>> THEN <<>>
    ELSE (IF Head(text) \in {"\\", ":", "'"} THEN <<"\\", Head(text)>>
          ELSE <<Head(text)>>) \o EscapedOnce(Tail(text))

\* The number of characters of text that need escaping.
Specials(text) == Cardinality({i \in 1..Len(text) : text[i] \in {"\\", ":", "'"}})

\* C14: the text embedded in the drawtext filter is the watermark text with
\* one backslash before every backslash, colon and single quote of the
\* original (the added backslashes are not doubled); a text without these
\* characters is embedded as it is.
C14_TextEscaped ==
    (Built /\ ~Raster) =>
        LET text == req.project.watermark.text
            esc == escapeFfmpeg(text)
        IN /\ esc = EscapedOnce(text)
           /\ Len(esc) = Len(text) + Specials(text)
           /\ Specials(text) = 0 => esc = text
           /\ args[Idx(args, "-vf") + 1]
                 = "drawtext=text='" \o Join(EscapedOnce(text)) \o "'"
                   \o DrawTextStyle(req.project, req.fontFile)

\* A text with a backslash directly before a colon has been embedded.
C14_Witness ==
    /\ Built /\ ~Raster
    /\ \E i \in 1..(Len(req.project.watermark.text) - 1) :
          /\ req.project.watermark.text[i] = "\\"
          /\ req.project.watermark.text[i + 1] = ":"
    /\ HasFlag(args, "-vf")

(***************************************************************************)
(* Properties of the application (SpecApp, SpecSubs)                       *)
(***************************************************************************)

ExportHandlers == {h \in Handlers : main[h].kind = "export"}
DownloadHandlers == {h \in Handlers : main[h].kind = "download"}

C16_RequestAndRasterUntouched ==
    /\ \A h \in Handlers :
          /\ main[h].run.opts = main[h].args
          /\ main[h].opts = ui.tasks[h].args
    /\ \A h \in ExportHandlers :
          /\ main[h].args = ExportHandler(h, ui.tasks[h].args).args
          /\ main[h].run.args = buildFfmpegArgs(main[h].args)
          /\ (main[h].pc = "awaiting" /\ main[h].wmPath # Undefined) =>
                /\ main[h].wmPath[1] \in DOMAIN files
                /\ files[main[h].wmPath[1]] = Base64Buffer(ExecDataUrl(PngDataUrl)[1])
    /\ \A h \in DownloadHandlers :
          /\ main[h].args = DownloadHandler(h, ui.tasks[h].args).args
          /\ main[h].run.args = DownloadArgs(main[h].args)

\* An export with a raster file has closed with a failure, its handler not
\* yet resumed, and a download has handled a data event.
C16_Witness ==
    /\ \E h \in ExportHandlers :
          /\ main[h].pc = "awaiting" /\ main[h].wmPath # Undefined
          /\ main[h].run.pc = "closed" /\ main[h].run.promise.state = "rejected"
          /\ main[h].run.nData >= 1
    /\ \E h \in DownloadHandlers : main[h].run.nData >= 1

InFlight(kind) == {t \in Tasks : ui.tasks[t].kind = kind /\ ui.tasks[t].pc = "invoked"}

\* The renderer handles the failure of an invoke in this step.
HandlesFailure(kind) ==
    /\ chan # <<>> /\ chan' = Tail(chan)
    /\ Head(chan).type = "reply" /\ Head(chan).kind = kind /\ ~Head(chan).data

C19_OneRunInFlight ==
    \A kind \in {"export", "download"} : Cardinality(InFlight(kind)) <= 1

\* The subscribers whose unsubscribe function has been called.
Offed == {id \in 1..Len(ui.subs) : ui.subs[id].offs >= 1}

\* This step is a call of the unsubscribe function of subscriber id.
IsUnsubscribe(id) ==
    /\ id \in 1..Len(ui.subs)
    /\ ui'.subs = [ui.subs EXCEPT ![id].offs = @ + 1]

\* C20: a subscriber whose unsubscribe function has been called, once or
\* several times, is not registered and is not called for any later progress
\* event, while every other subscriber of the channel still is; a call of an
\* unsubscribe function removes no other handler and leaves the runs, the
\* messages under way, the files and the panels as they are.
C20_UnsubscribeSafe ==
    [][/\ \A id \in Offed : id \notin ui.listeners[ui.subs[id].kind]
       /\ (chan # <<>> /\ chan' = Tail(chan) /\ Head(chan).type = "progress") =>
              ui'.lastTo = {id \in 1..Len(ui.subs) :
                              ui.subs[id].kind = Head(chan).kind /\ id \notin Offed}
       /\ \A id \in 1..MaxSubs :
              IsUnsubscribe(id) =>
                  /\ \A k \in {"export", "download"} :
                        ui'.listeners[k] = ui.listeners[k] \ {id}
                  /\ UNCHANGED <<files, main, chan>>
                  /\ ui'.progress = ui.progress /\ ui'.tasks = ui.tasks]_vars

\* A subscriber has called its unsubscribe function MaxOffCalls times, a
\* later subscriber of the same channel has received a progress event that the
\* first one did not, and the run has resolved and been handled.
C20_Witness ==
    \E id1, id2 \in 1..Len(ui.subs) :
        /\ id1 < id2 /\ ui.subs[id1].kind = ui.subs[id2].kind
        /\ ui.subs[id1].offs = MaxOffCalls /\ ui.subs[id2].offs = 0
        /\ ui.lastTo = {id2}
        /\ \E h \in Handlers :
              /\ main[h].kind = ui.subs[id1].kind
              /\ main[h].run.promise.state = "resolved"
              /\ ui.tasks[h].pc \in {"done", "probing"}

(***************************************************************************)
(* Properties of the project store (SpecTrim)                              *)
(***************************************************************************)

\* C21: in every state of the project store trim.startSec <= trim.endSec,
\* and once the duration is known both lie between 0 and the duration.
C21_TrimWithinDuration ==
    /\ proj.trim.startSec <= proj.trim.endSec
    /\ proj.video.durationSec # Undefined =>
          /\ 0 <= proj.trim.startSec
          /\ proj.trim.endSec <= proj.video.durationSec[1]

(***************************************************************************)
(* Properties of concurrent export runs (SpecPair)                         *)
(***************************************************************************)

RatioEq(p, q) == RatioLeq(p, q) /\ RatioLeq(q, p)

\* The ratio a run reports for its latest chunk, from that run alone: the
\* larger of its last reported ratio (0 when it has reported none) and the
\* chunk's timestamp over its own trim duration, capped at 1.
OwnRatio(before, after) ==
    LET last == IF before.calls = <<>> THEN Zero
                ELSE before.calls[Len(before.calls)]
        now == IF after.seen[1] >= TargetDur(after.opts) THEN One
               ELSE SeenRatio(after)
    IN IF RatioLeq(now, last) THEN last ELSE now

\* C22: with several export runs active and their chunks interleaved, the
\* ratios of each run are non-decreasing; a step that delivers a ratio to a
\* run is a chunk of that run, the ratio is determined by that run's earlier
\* ratios, that chunk and that run's trim duration, and the step changes no
\* other run.
C22_RunsIndependent ==
    [][\A r \in Started :
          /\ \A i, j \in 1..Len(ex'[r].calls) :
                i < j => RatioLeq(ex'[r].calls[i], ex'[r].calls[j])
          /\ ex'[r].calls # ex[r].calls =>
                /\ ex'[r].nData = ex[r].nData + 1
                /\ ex'[r].seen # Undefined
                /\ Len(ex'[r].calls) = Len(ex[r].calls) + 1
                /\ \A i \in 1..Len(ex[r].calls) : ex'[r].calls[i] = ex[r].calls[i]
                /\ RatioEq(ex'[r].calls[Len(ex'[r].calls)], OwnRatio(ex[r], ex'[r]))
                /\ \A q \in Started \ {r} : ex'[q] = ex[q]
          /\ ex'[r].opts = ex[r].opts]_vars

\* Two runs with different trim durations are active; each has reported
\* twice, the last time for the same timestamp and with different ratios.
C22_Witness ==
    /\ Started = PairRuns
    /\ \A r \in PairRuns :
          ex[r].pc = "running" /\ FiredLast(ex[r]) /\ Len(ex[r].calls) = 2
    /\ ex[1].seen = ex[2].seen
    /\ ~RatioEq(ex[1].calls[2], ex[2].calls[Len(ex[2].calls)])

(***************************************************************************)
(* Properties of the metadata extraction (SpecMeta)                        *)
(***************************************************************************)

\* What a frame-rate field denotes: the quotient when it is written as
\* numerator "/" denominator, both components denote numbers and the
\* denominator is not 0; unknown otherwise.
RateValue(f) ==
    IF /\ f.present /\ Len(f.parts) = 2
       /\ f.parts[1].num # Undefined /\ f.parts[2].num # Undefined
       /\ f.parts[2].num[1].val[1] # 0
    THEN Some(Quotient(f.parts[1].num[1], f.parts[2].num[1]))
    ELSE Undefined

\* The field is absent (or empty) or the degenerate 0/0.
Degenerate(f) == ~TruthyChars(RateText(f)) \/ RateText(f) = Some(ZeroByZero)

\* C23: the frame rate is what the primary field denotes; when the primary
\* field is 0/0 or absent it is what the alternate field denotes; it is
\* unknown when the field used has a zero denominator or a component that
\* denotes no number, and when there is no video stream.
C23_FrameRate ==
    pb.pc = "extracted" =>
        LET i == pb.input
        IN pb.meta.fps =
              IF ~i.video THEN Undefined
              ELSE IF ~Degenerate(i.avg) THEN RateValue(i.avg)
              ELSE RateValue(i.r)

(***************************************************************************)
(* Properties of the probe (SpecProbe)                                     *)
(***************************************************************************)

\* C24: a probe whose child could not be launched, exited with a nonzero
\* code, or exited with code 0 after writing something that is no complete
\* document, rejects; a probe resolves only after exit code 0, and then with
\* the document the child wrote.
C24_ProbeOutcome ==
    /\ pb.pc = "closed" =>
          /\ pb.promise.state # "pending"
          /\ (pb.errored \/ pb.code # Some(0) \/ pb.feed.kind # "document")
                => pb.promise.state = "rejected"
    /\ (pb.pc # "idle" /\ pb.errored) => pb.promise.state = "rejected"
    /\ (pb.pc # "idle" /\ pb.promise.state = "resolved") =>
          /\ pb.pc = "closed" /\ pb.code = Some(0) /\ ~pb.errored
          /\ pb.feed.kind = "document"
          /\ pb.promise.value = ProbeDoc

\* A probe has rejected after exit code 0: its child wrote, in several
\* pieces, a document that was cut short.
C24_Witness ==
    /\ pb.pc = "closed" /\ pb.code = Some(0) /\ pb.nData >= 2
    /\ pb.feed.kind = "truncated" /\ Len(pb.out) > 2
    /\ pb.promise.state = "rejected" /\ pb.promise.error = "SyntaxError"

(***************************************************************************)
(* Properties of the binary locators (SpecPaths)                           *)
(***************************************************************************)

\* The bundled and bin/ binaries of the tool that exist: in the resources
\* folder (the working directory when there is none) or in bin/, with or
\* without .exe.
Installed(l) ==
    {p \in l.env.exists :
        \E dir \in {ResourcesDir(l.env.resourcesPath), Cwd \o "/bin"},
           ext \in {"", ".exe"} :
            p = PathResolve(dir, l.tool \o ext)}

\* C25: a locator returns a bundled or bin/ binary that exists whenever there
\* is one, and a bare command name otherwise.
C25_LocatorPrefersFiles ==
    loc.result # Undefined =>
        IF Installed(loc) # {}
        THEN loc.result[1] \in Installed(loc)
        ELSE loc.result[1] \in {loc.tool, loc.tool \o ".exe"}

(***************************************************************************)
(* Properties of the application that need progress (SpecAppLive)          *)
(***************************************************************************)

\* The renderer has handled the outcome of the export run of task t.
ExportHandled(t) ==
    /\ t \in Tasks /\ t \in DOMAIN main
    /\ ui.tasks[t].kind = "export" /\ ui.tasks[t].pc = "done"

\* C26: after an export run has settled and the panel has handled its
\* outcome, success or failure, the Export button eventually is enabled.
C26_TriggerReenabled ==
    \A t \in 1..MaxTasks : ExportHandled(t) ~> ~ExportDisabled(ui)

(***************************************************************************)
(* Properties of the promises of the three runners (SpecSettle)            *)
(***************************************************************************)

\* A settled promise stays as it is.
SettledStays(before, after) ==
    before.promise.state # "pending" => after.promise = before.promise

\* Once 'error' or 'close' has been emitted the promise is settled, and a
\* spawn error that came first is the outcome.
Decided(run) ==
    /\ (run.errored \/ run.pc = "closed") => run.promise.state # "pending"
    /\ run.errored => run.promise = Rejected("spawn", run.code[1])

\* C27: every export, download and probe run settles its promise exactly
\* once, at the first 'error' or 'close' event of its child; a later event
\* (a close after a spawn error) leaves the outcome as it is.
C27_SettlesOnce ==
    [][/\ (1 \in DOMAIN ex /\ 1 \in DOMAIN ex') => SettledStays(ex[1], ex'[1])
       /\ (1 \in DOMAIN ex') => Decided(ex'[1])
       /\ SettledStays(dl, dl') /\ Decided(dl')
       /\ (pb.pc # "idle") => SettledStays(pb, pb')
       /\ (pb'.pc # "idle") => Decided(pb')]_vars

\* Each of the three children failed to spawn and then closed.
C27_Witness ==
    /\ 1 \in DOMAIN ex /\ ex[1].errored /\ ex[1].pc = "closed"
    /\ dl.errored /\ dl.pc = "closed"
    /\ pb.pc = "closed" /\ pb.errored /\ pb.settles = 2
    /\ ex[1].promise = Rejected("spawn", ex[1].code[1])
    /\ dl.promise = Rejected("spawn", dl.code[1])
    /\ pb.promise = Rejected("spawn", pb.code[1])

=============================================================================
